---- MODULE Spec2Model ----
(***************************************************************************)
(* Reacher: the application pipeline (src/agent.py), its record store      *)
(* (src/db.py), the job identity (src/models.py), the draft commands       *)
(* (src/cli.py) and the email discovery (src/email_finder.py).             *)
(*                                                                         *)
(* Text.  A Python str that the code inspects (title, company,             *)
(* description, unique_key) is a sequence of one-character strings, so     *)
(* that lower(), strip(), concatenation and the `in` substring test are    *)
(* computed as the code computes them.  The two non-ASCII letters of the   *)
(* alphabet are written by code point: "U00C9" is LATIN CAPITAL LETTER E   *)
(* WITH ACUTE and "U00E9" its small form.  The values of the JobSource     *)
(* enum ("linkedin", "twitter") are kept as one symbol each: they are      *)
(* lower-case constants that no operation looks into.  Strings the         *)
(* pipeline only passes along (addresses, subject, body, source_id) are    *)
(* plain strings, "" being the empty one.                                  *)
(***************************************************************************)
EXTENDS Integers, Sequences, FiniteSets, TLC

VARIABLES
    seen_jobs,      \* table seen_jobs, rows in insertion order
    applications,   \* table applications, rows in insertion order
    drafts,         \* table drafts, rows in insertion order
    draft_seq,      \* AUTOINCREMENT counter of drafts.id
    today,          \* the current UTC day; every behaviour stays within one day
    max_applications_per_day,   \* config.limits.max_applications_per_day
    max_applications_per_run,   \* config.limits.max_applications_per_run
    proc,           \* per process: position and locals of the running command
    runs,           \* number of commands started so far
    classified,     \* unique keys the filter step bucketed as new, in order
    pick_jobs,      \* argument jobs of a call of _pick_best_per_company
    pick_contacted, \* argument contacted_companies of that call
    pick_out,       \* its return value
    pick_pc,        \* "call" before the call, "ret" after it, "off" otherwise
    finder          \* position and locals of a call of find_application_email

vars == <<seen_jobs, applications, drafts, draft_seq, today,
          max_applications_per_day, max_applications_per_run,
          proc, runs, classified,
          pick_jobs, pick_contacted, pick_out, pick_pc, finder>>

store == <<seen_jobs, applications, drafts, draft_seq>>
config == <<max_applications_per_day, max_applications_per_run>>
pickvars == <<pick_jobs, pick_contacted, pick_out, pick_pc, finder>>

-----------------------------------------------------------------------------
(* Bounds of the model.                                                    *)

MaxScrape == 2      \* longest list the three scrapers return together
MaxRuns == 3        \* commands started in one behaviour
MaxPickLen == 4     \* longest input list of _pick_best_per_company

-----------------------------------------------------------------------------
(* Text helpers: Python str and SQLite text functions.                     *)

Min(a, b) == IF a < b THEN a ELSE b

SetMin(S) == CHOOSE x \in S : \A y \in S : x <= y

SetMax(S) == CHOOSE x \in S : \A y \in S : y <= x

UpperAscii == <<"A", "B", "C", "D", "E", "F", "G", "H", "I", "J", "K", "L", "M",
                "N", "O", "P", "Q", "R", "S", "T", "U", "V", "W", "X", "Y", "Z">>

LowerAscii == <<"a", "b", "c", "d", "e", "f", "g", "h", "i", "j", "k", "l", "m",
                "n", "o", "p", "q", "r", "s", "t", "u", "v", "w", "x", "y", "z">>

\* ASCII case folding of one character.
AsciiLowerChar(c) ==
    IF \E i \in DOMAIN UpperAscii : UpperAscii[i] = c
    THEN LowerAscii[CHOOSE i \in DOMAIN UpperAscii : UpperAscii[i] = c]
    ELSE c

\* str.lower() folds every cased Unicode letter.
PyLowerChar(c) == IF c = "U00C9" THEN "U00E9" ELSE AsciiLowerChar(c)

\* SQLite's built-in LOWER() folds the ASCII letters only.
SqlLowerChar(c) == AsciiLowerChar(c)

py_lower(s) == [i \in DOMAIN s |-> PyLowerChar(s[i])]

sql_LOWER(s) == [i \in DOMAIN s |-> SqlLowerChar(s[i])]

\* str.strip(): leading and trailing whitespace removed.
py_strip(s) ==
    LET ink == {i \in DOMAIN s : s[i] # " "}
    IN  IF ink = {} THEN <<>> ELSE SubSeq(s, SetMin(ink), SetMax(ink))

\* kw in text
Contains(text, kw) ==
    \E i \in 1..(Len(text) - Len(kw) + 1) : SubSeq(text, i, i + Len(kw) - 1) = kw

\* any(kw in text for kw in kws)
AnyIn(kws, text) == \E k \in DOMAIN kws : Contains(text, kws[k])

-----------------------------------------------------------------------------
(* src/agent.py: _job_priority_score                                        *)

JsKeywords == <<
    <<"j", "a", "v", "a", "s", "c", "r", "i", "p", "t">>,
    <<"t", "y", "p", "e", "s", "c", "r", "i", "p", "t">>,
    <<"j", "s", " ">>,
    <<"t", "s", " ">>,
    <<"r", "e", "a", "c", "t">>,
    <<"n", "o", "d", "e", ".", "j", "s">>,
    <<"n", "o", "d", "e", "j", "s">>,
    <<"n", "e", "x", "t", ".", "j", "s">>,
    <<"n", "e", "x", "t", "j", "s">>,
    <<"n", "e", "s", "t", "j", "s">> >>

FullStackKeywords == <<
    <<"f", "u", "l", "l", " ", "s", "t", "a", "c", "k">>,
    <<"f", "u", "l", "l", "s", "t", "a", "c", "k">>,
    <<"f", "u", "l", "l", "-", "s", "t", "a", "c", "k">> >>

FrontendKeywords == <<
    <<"f", "r", "o", "n", "t", "e", "n", "d">>,
    <<"f", "r", "o", "n", "t", "-", "e", "n", "d">>,
    <<"f", "r", "o", "n", "t", " ", "e", "n", "d">> >>

BackendKeywords == <<
    <<"b", "a", "c", "k", "e", "n", "d">>,
    <<"b", "a", "c", "k", "-", "e", "n", "d">>,
    <<"b", "a", "c", "k", " ", "e", "n", "d">> >>

ReactNative == <<"r", "e", "a", "c", "t", " ", "n", "a", "t", "i", "v", "e">>

ScoreAddsEveryRole(job) ==
    LET title == py_lower(job.title)
        desc == py_lower(job.description)
        combined == title \o <<" ">> \o desc
        lang == IF AnyIn(JsKeywords, combined) THEN 100 ELSE 0
        role == (IF AnyIn(FullStackKeywords, title) THEN 50 ELSE 0)
                + (IF AnyIn(FrontendKeywords, title) THEN 30 ELSE 0)
                + (IF AnyIn(BackendKeywords, title) THEN 20 ELSE 0)
        bonus == IF Contains(combined, ReactNative) THEN 40 ELSE 0
    IN  lang + role + bonus

job_priority_score(job) ==
    LET title == py_lower(job.title)
        desc == py_lower(job.description)
        combined == title \o <<" ">> \o desc
        lang == IF AnyIn(JsKeywords, combined) THEN 100 ELSE 0
        role == IF AnyIn(FullStackKeywords, title) THEN 50
                ELSE IF AnyIn(FrontendKeywords, title) THEN 30
                ELSE IF AnyIn(BackendKeywords, title) THEN 20
                ELSE 0
        bonus == IF Contains(combined, ReactNative) THEN 40 ELSE 0
    IN  lang + role + bonus

-----------------------------------------------------------------------------
(* src/agent.py: _pick_best_per_company                                     *)

\* job.company.strip().lower()
company_key(company) == py_lower(py_strip(company))

PickSkipsNever(key, contacted) == FALSE

\* if company_key in contacted_companies: continue
PickSkips(key, contacted) == key \in contacted

PickReplacesOnTie(score, best) == score >= best

\* score > by_company[company_key][1]
PickReplaces(score, best) == score > best

\* One iteration of the loop.  by_company is the dict, as the sequence of its
\* entries in insertion order: assigning to a key that is present keeps the
\* key at its place.
PickStep(by_company, job, contacted) ==
    LET key == company_key(job.company)
        score == job_priority_score(job)
        entry == [key |-> key, job |-> job, score |-> score]
        at == {i \in DOMAIN by_company : by_company[i].key = key}
    IN  IF PickSkips(key, contacted) THEN by_company
        ELSE IF at = {} THEN Append(by_company, entry)
        ELSE LET i == CHOOSE i \in at : TRUE
             IN  IF PickReplaces(score, by_company[i].score)
                 THEN [by_company EXCEPT ![i] = entry]
                 ELSE by_company

RECURSIVE PickLoop(_, _, _)
PickLoop(jobs, contacted, by_company) ==
    IF jobs = <<>> THEN by_company
    ELSE PickLoop(Tail(jobs), contacted, PickStep(by_company, Head(jobs), contacted))

pick_best_per_company(jobs, contacted) ==
    LET by_company == PickLoop(jobs, contacted, <<>>)
    IN  [i \in DOMAIN by_company |-> by_company[i].job]

-----------------------------------------------------------------------------
(* src/models.py: Job.unique_key                                            *)

UniqueKeyUnfolded(job) ==
    IF job.source_id # "" THEN <<job.source, ":", job.source_id>>
    ELSE <<job.source, ":">> \o job.title \o <<":">> \o job.company

unique_key(job) ==
    IF job.source_id # ""
    THEN <<job.source, ":", job.source_id>>
    ELSE py_lower(<<job.source, ":">> \o job.title \o <<":">> \o job.company)

-----------------------------------------------------------------------------
(* src/db.py: the record store.  Every operation is one transaction on the  *)
(* tables it is given.                                                     *)

RowKeys(seen) == {seen[i].unique_key : i \in DOMAIN seen}

IsJobSeenNever(job, seen) == FALSE

\* SELECT 1 FROM seen_jobs WHERE unique_key = ?
is_job_seen(job, seen) == unique_key(job) \in RowKeys(seen)

\* The row mark_job_seen inserts.  discovered_at is the time the scraper built
\* the Job; the times are renumbered 1, 2, ... in the order of insertion, which
\* is the order the single-threaded scrape builds and filters the jobs in.
SeenRow(job, seen) ==
    [unique_key |-> unique_key(job), title |-> job.title, company |-> job.company,
     description |-> job.description, application_email |-> job.application_email,
     source |-> job.source, source_id |-> job.source_id,
     discovered_at |-> Len(seen) + 1]

MarkJobSeenReplacing(job, seen) ==
    IF unique_key(job) \in RowKeys(seen)
    THEN [i \in DOMAIN seen |->
            IF seen[i].unique_key = unique_key(job)
            THEN [SeenRow(job, seen) EXCEPT !.discovered_at = seen[i].discovered_at]
            ELSE seen[i]]
    ELSE Append(seen, SeenRow(job, seen))

\* INSERT OR IGNORE INTO seen_jobs: unique_key is the primary key.
MarkJobSeenAppends(job, seen) == Append(seen, SeenRow(job, seen))

mark_job_seen(job, seen) ==
    IF unique_key(job) \in RowKeys(seen) THEN seen ELSE Append(seen, SeenRow(job, seen))

LogApplicationTwice(app, apps) == Append(Append(apps, app), app)

\* INSERT INTO applications
log_application(app, apps) == Append(apps, app)

\* SELECT COUNT(*) FROM applications WHERE sent_at >= today_start
get_applications_today(apps, day) ==
    Cardinality({i \in DOMAIN apps : apps[i].sent_at >= day})

\* SELECT DISTINCT LOWER(company) FROM applications, and the same of the drafts
\* WHERE status != 'discarded'
get_contacted_companies(apps, drs) ==
    {sql_LOWER(apps[i].company) : i \in DOMAIN apps}
        \cup {sql_LOWER(drs[i].company) : i \in {j \in DOMAIN drs : drs[j].status # "discarded"}}

\* SELECT DISTINCT LOWER(company) FROM applications
get_sent_companies(apps) == {sql_LOWER(apps[i].company) : i \in DOMAIN apps}

\* The rows of a table that satisfy keep, in the order of by (descending): keys
\* are pairwise different.
OrderByDesc(rows, keep, by) ==
    LET n == Cardinality(keep)
        rank(i) == Cardinality({j \in keep : by[j] > by[i]}) + 1
    IN  [k \in 1..n |-> rows[CHOOSE i \in keep : rank(i) = k]]

PendingJobsKeepsApplied(seen, apps, drs) ==
    LET keep == {i \in DOMAIN seen :
                    /\ seen[i].application_email # ""
                    /\ ~ \E d \in DOMAIN drs : drs[d].job_unique_key = seen[i].unique_key}
    IN  OrderByDesc(seen, keep, [i \in DOMAIN seen |-> seen[i].discovered_at])

PendingJobsWithoutLiveDraft(seen, apps, drs) ==
    LET keep == {i \in DOMAIN seen :
                    /\ seen[i].application_email # ""
                    /\ ~ \E a \in DOMAIN apps :
                            /\ apps[a].job_title = seen[i].title
                            /\ apps[a].company = seen[i].company
                    /\ ~ \E d \in DOMAIN drs :
                            /\ drs[d].job_unique_key = seen[i].unique_key
                            /\ drs[d].status # "discarded"}
    IN  OrderByDesc(seen, keep, [i \in DOMAIN seen |-> seen[i].discovered_at])

\* SELECT ... FROM seen_jobs s WHERE s.application_email != '' AND NOT EXISTS
\* (application of the same title and company) AND NOT EXISTS (draft of the
\* same unique_key) ORDER BY s.discovered_at DESC
get_pending_jobs(seen, apps, drs) ==
    LET keep == {i \in DOMAIN seen :
                    /\ seen[i].application_email # ""
                    /\ ~ \E a \in DOMAIN apps :
                            /\ apps[a].job_title = seen[i].title
                            /\ apps[a].company = seen[i].company
                    /\ ~ \E d \in DOMAIN drs : drs[d].job_unique_key = seen[i].unique_key}
    IN  OrderByDesc(seen, keep, [i \in DOMAIN seen |-> seen[i].discovered_at])

\* INSERT INTO drafts (..., 'pending'); the id is AUTOINCREMENT and created_at
\* the time of the insert, so created_at grows with the id.
SaveDraftApproved(d, drs, seq) ==
    Append(drs, [id |-> seq + 1, job_unique_key |-> d.job_unique_key,
                 job_title |-> d.job_title, company |-> d.company,
                 recipient_email |-> d.recipient_email, subject |-> d.subject,
                 body |-> d.body, source |-> d.source, status |-> "approved"])

save_draft(d, drs, seq) ==
    Append(drs, [id |-> seq + 1, job_unique_key |-> d.job_unique_key,
                 job_title |-> d.job_title, company |-> d.company,
                 recipient_email |-> d.recipient_email, subject |-> d.subject,
                 body |-> d.body, source |-> d.source, status |-> "pending"])

\* SELECT * FROM drafts WHERE status = ? ORDER BY created_at DESC
get_drafts(status, drs) ==
    OrderByDesc(drs, {i \in DOMAIN drs : drs[i].status = status},
                [i \in DOMAIN drs |-> drs[i].id])

DraftIds(drs) == {drs[i].id : i \in DOMAIN drs}

\* SELECT * FROM drafts WHERE id = ?  (only called on an id that is present)
get_draft_by_id(id, drs) == drs[CHOOSE i \in DOMAIN drs : drs[i].id = id]

\* UPDATE drafts SET status = ? WHERE id = ?
update_draft_status(id, status, drs) ==
    [i \in DOMAIN drs |-> IF drs[i].id = id THEN [drs[i] EXCEPT !.status = status]
                          ELSE drs[i]]

-----------------------------------------------------------------------------
(* What the collaborators can return.                                      *)

FullStack == <<"F", "u", "l", "l", " ", "S", "t", "a", "c", "k">>
Backend == <<"B", "a", "c", "k", "e", "n", "d">>
Acme == <<"A", "c", "m", "e">>
AcmeLower == <<"a", "c", "m", "e">>
Ecole == <<"U00C9", "c", "o", "l", "e">>
React == <<"R", "e", "a", "c", "t">>

\* A posting of Acme with a native id.
JobA1 == [title |-> FullStack, company |-> Acme, description |-> <<>>,
          application_email |-> "hr@acme.io", source |-> "linkedin", source_id |-> "1"]

\* The same posting (same source and native id) scraped with no address.
JobA1b == [title |-> FullStack, company |-> Acme, description |-> <<>>,
           application_email |-> "", source |-> "linkedin", source_id |-> "1"]

\* Another posting of the same employer, its name in another case, no native id.
JobA2 == [title |-> Backend, company |-> AcmeLower, description |-> <<>>,
          application_email |-> "jobs@acme.io", source |-> "twitter", source_id |-> ""]

\* Two postings of an employer whose name starts with a non-ASCII capital.
JobE1 == [title |-> Backend, company |-> Ecole, description |-> <<>>,
          application_email |-> "rh@ecole.fr", source |-> "linkedin", source_id |-> "3"]

JobE2 == [title |-> FullStack, company |-> Ecole, description |-> React,
          application_email |-> "rh@ecole.fr", source |-> "twitter", source_id |-> ""]

ScrapedJobs == {JobA1, JobA1b, JobA2, JobE1, JobE2}

SeqsUpTo(S, n) == UNION {[1..k -> S] : k \in 0..n}

\* The lengths of the list scrape_linkedin_posts + scrape_linkedin_jobs +
\* scrape_twitter_jobs return together.
ScrapeLengths == 0..MaxScrape

\* generate_application_email returns a (subject, body) pair.
GeneratedMails == {[subject |-> "Application", body |-> "Hello"]}

-----------------------------------------------------------------------------
(* The processes.  A process runs one command at a time; pc is its position *)
(* in it, the other fields are the locals of the command.  A for loop keeps *)
(* the part of its list it has not reached yet: work for best_jobs,         *)
(* best_rows and unique_drafts.  Of all_jobs, which the scrapers build from *)
(* the network alone, the loop keeps the length of the part not reached     *)
(* yet (todo), and an element is drawn when the loop reaches it (job).      *)
(* scrape_calls, gen_calls and                                              *)
(* send_calls count the calls the command made to the source, the           *)
(* content-generation and the delivery collaborators.                       *)

Procs == {1, 2}

\* The process of the single-threaded, non-overlapping use.
MainProcs == {1}

\* No job at hand.
NoJob == [title |-> <<>>]

IdleProc ==
    [pc |-> "idle", wf |-> "none", dry_run |-> FALSE, send_all |-> FALSE,
     apps_today |-> 0, remaining_today |-> 0, max_this_run |-> 0,
     todo |-> 0, job |-> NoJob, candidates |-> <<>>, work |-> <<>>,
     mail |-> [subject |-> "", body |-> ""],
     jobs_found |-> 0, jobs_new |-> 0,
     applied_count |-> 0, applications_sent |-> 0, applications_failed |-> 0,
     drafts_created |-> 0,
     scrape_calls |-> 0, gen_calls |-> 0, send_calls |-> 0,
     arg |-> 0, out |-> ""]

Set(p, r) == proc' = [proc EXCEPT ![p] = r]

\* The configured limits a behaviour runs under: <<per day, per run>>.
Limits == {<<0, 1>>, <<1, 1>>, <<1, 2>>, <<2, 1>>, <<2, 2>>}

InitStore ==
    /\ seen_jobs = <<>>
    /\ applications = <<>>
    /\ drafts = <<>>
    /\ draft_seq = 0
    /\ classified = <<>>

FinderOff == [pc |-> "off"]

PickOff ==
    /\ finder = FinderOff
    /\ pick_jobs = <<>>
    /\ pick_contacted = {}
    /\ pick_out = <<>>
    /\ pick_pc = "off"

Init ==
    /\ InitStore
    /\ today = 0
    /\ \E l \in Limits : /\ max_applications_per_day = l[1]
                         /\ max_applications_per_run = l[2]
    /\ proc = [p \in Procs |-> IdleProc]
    /\ runs = 0
    /\ PickOff

-----------------------------------------------------------------------------
(* src/agent.py: the rate limiter at the head of run_agent, send_pending    *)
(* and send_approved_drafts.                                                *)

\* remaining_today = config.limits.max_applications_per_day - apps_today
RemainingToday(per_day, apps_today) == per_day - apps_today

DailyLimitReachedBelowZero(remaining_today) == remaining_today < 0

\* if remaining_today <= 0: return summary
DailyLimitReached(remaining_today) == remaining_today <= 0

MaxThisRunIgnoresDay(per_run, remaining_today) == per_run

\* max_this_run = min(config.limits.max_applications_per_run, remaining_today)
MaxThisRun(per_run, remaining_today) == Min(per_run, remaining_today)

BudgetExhaustedLate(applied_count, max_this_run) == applied_count > max_this_run

\* if applied_count >= max_this_run: break
BudgetExhausted(applied_count, max_this_run) == applied_count >= max_this_run

\* init_db(); apps_today = get_applications_today(); the limit check.
StartLimited(p, wf, dry, all, next) ==
    /\ proc[p].pc = "idle"
    /\ runs < MaxRuns
    /\ runs' = runs + 1
    /\ LET apps_today == get_applications_today(applications, today)
           remaining == RemainingToday(max_applications_per_day, apps_today)
           r == [IdleProc EXCEPT !.wf = wf, !.dry_run = dry, !.send_all = all,
                                 !.apps_today = apps_today,
                                 !.remaining_today = remaining]
       IN  IF DailyLimitReached(remaining)
           THEN Set(p, [r EXCEPT !.pc = "done"])
           ELSE Set(p, [r EXCEPT !.pc = next,
                                 !.max_this_run =
                                     MaxThisRun(max_applications_per_run, remaining)])
    /\ UNCHANGED <<store, today, config, classified, pickvars>>

StartRun(p) == \E dry \in BOOLEAN : StartLimited(p, "run", dry, FALSE, "scrape")

StartSendPending(p) ==
    \E dry \in BOOLEAN : StartLimited(p, "send_pending", dry, FALSE, "pending")

StartSendDrafts(p) ==
    \E dry \in BOOLEAN, all \in BOOLEAN :
        StartLimited(p, "send_drafts", dry, all, "get_drafts")

\* generate_drafts has no limit check.
StartGenerateDrafts(p) ==
    /\ proc[p].pc = "idle"
    /\ runs < MaxRuns
    /\ runs' = runs + 1
    /\ Set(p, [IdleProc EXCEPT !.wf = "draft", !.pc = "pending"])
    /\ UNCHANGED <<store, today, config, classified, pickvars>>

-----------------------------------------------------------------------------
(* src/agent.py: run_agent, steps 1 and 2 (scrape, filter).                 *)

Scrape(p, lengths) ==
    /\ proc[p].pc = "scrape"
    /\ \E n \in lengths :
          Set(p, [proc[p] EXCEPT !.todo = n, !.jobs_found = n,
                                 !.scrape_calls = @ + 1, !.pc = "filter"])
    /\ UNCHANGED <<store, today, config, runs, classified, pickvars>>

\* for job in all_jobs: if is_job_seen(job): continue
FilterCheck(p, jobs) ==
    /\ proc[p].pc = "filter"
    /\ proc[p].todo > 0
    /\ \E job \in jobs :
          IF is_job_seen(job, seen_jobs)
          THEN Set(p, [proc[p] EXCEPT !.todo = @ - 1])
          ELSE Set(p, [proc[p] EXCEPT !.job = job, !.pc = "mark"])
    /\ UNCHANGED <<store, today, config, runs, classified, pickvars>>

\* mark_job_seen(job), then the job is bucketed by its address.
FilterMark(p) ==
    /\ proc[p].pc = "mark"
    /\ LET job == proc[p].job
       IN  /\ seen_jobs' = mark_job_seen(job, seen_jobs)
           /\ classified' = Append(classified, unique_key(job))
           /\ Set(p, [proc[p] EXCEPT
                        !.todo = @ - 1, !.job = NoJob, !.pc = "filter",
                        !.jobs_new = @ + 1,
                        !.candidates = IF job.application_email # ""
                                       THEN Append(@, job) ELSE @])
    /\ UNCHANGED <<applications, drafts, draft_seq, today, config, runs, pickvars>>

\* if not new_with_email: return summary
FilterEnd(p) ==
    /\ proc[p].pc = "filter"
    /\ proc[p].todo = 0
    /\ Set(p, [proc[p] EXCEPT !.pc = IF proc[p].candidates = <<>> THEN "done"
                                     ELSE "select"])
    /\ UNCHANGED <<store, today, config, runs, classified, pickvars>>

-----------------------------------------------------------------------------
(* src/agent.py: send_pending and generate_drafts read the pending jobs.    *)

\* pending = get_pending_jobs(); if not pending: return summary
Pending(p) ==
    /\ proc[p].pc = "pending"
    /\ LET pending == get_pending_jobs(seen_jobs, applications, drafts)
       IN  Set(p, [proc[p] EXCEPT !.candidates = pending,
                                  !.pc = IF pending = <<>> THEN "done" ELSE "select"])
    /\ UNCHANGED <<store, today, config, runs, classified, pickvars>>

\* contacted = get_contacted_companies(); best = _pick_best_per_company(...);
\* if not best: return summary
Select(p) ==
    /\ proc[p].pc = "select"
    /\ LET contacted == get_contacted_companies(applications, drafts)
           best == pick_best_per_company(proc[p].candidates, contacted)
       IN  Set(p, [proc[p] EXCEPT
                     !.candidates = <<>>, !.work = best,
                     !.pc = IF best = <<>> THEN "done"
                            ELSE IF proc[p].wf = "draft" THEN "draft_loop"
                            ELSE "loop"])
    /\ UNCHANGED <<store, today, config, runs, classified, pickvars>>

-----------------------------------------------------------------------------
(* src/agent.py: the sending loop of run_agent, send_pending and            *)
(* send_approved_drafts.                                                    *)

\* The list is exhausted.
LoopEnd(p) ==
    /\ proc[p].pc = "loop"
    /\ proc[p].work = <<>>
    /\ Set(p, [proc[p] EXCEPT !.pc = "done"])
    /\ UNCHANGED <<store, today, config, runs, classified, pickvars>>

\* if applied_count >= max_this_run: break
LoopBreak(p) ==
    /\ proc[p].pc = "loop"
    /\ proc[p].work # <<>>
    /\ BudgetExhausted(proc[p].applied_count, proc[p].max_this_run)
    /\ Set(p, [proc[p] EXCEPT !.pc = "done", !.work = <<>>])
    /\ UNCHANGED <<store, today, config, runs, classified, pickvars>>

\* The mail of a candidate: generated for a job, stored in a draft.
MailsFor(p) ==
    IF proc[p].wf = "send_drafts"
    THEN {[subject |-> Head(proc[p].work).subject, body |-> Head(proc[p].work).body]}
    ELSE GeneratedMails

GenCall(p) == IF proc[p].wf = "send_drafts" THEN 0 ELSE 1

WouldSendDelivers(r, gen) ==
    [r EXCEPT !.gen_calls = @ + gen, !.send_calls = @ + 1,
              !.applied_count = @ + 1, !.applications_sent = @ + 1, !.work = Tail(@)]

\* print("[DRY RUN] Would send to ..."); applied_count += 1;
\* summary["applications_sent"] += 1; continue
WouldSend(r, gen) ==
    [r EXCEPT !.gen_calls = @ + gen,
              !.applied_count = @ + 1, !.applications_sent = @ + 1, !.work = Tail(@)]

\* if dry_run: the candidate is counted and nothing is sent or stored
LoopDryRun(p) ==
    /\ proc[p].pc = "loop"
    /\ proc[p].work # <<>>
    /\ ~ BudgetExhausted(proc[p].applied_count, proc[p].max_this_run)
    /\ proc[p].dry_run
    /\ Set(p, WouldSend(proc[p], GenCall(p)))
    /\ UNCHANGED <<store, today, config, runs, classified, pickvars>>

FailedSendCountsAsSent(r) ==
    [r EXCEPT !.applied_count = @ + 1, !.applications_sent = @ + 1, !.work = Tail(@)]

FailedSendLogged(r) ==
    [r EXCEPT !.applications_failed = @ + 1, !.pc = "log"]

\* else: summary["applications_failed"] += 1, and on to the next candidate
FailedSend(r) ==
    [r EXCEPT !.applications_failed = @ + 1, !.work = Tail(@)]

\* success = send_application_email(...): the delivery succeeds or fails.
LoopSend(p) ==
    /\ proc[p].pc = "loop"
    /\ proc[p].work # <<>>
    /\ ~ BudgetExhausted(proc[p].applied_count, proc[p].max_this_run)
    /\ ~ proc[p].dry_run
    /\ \E m \in MailsFor(p), success \in BOOLEAN :
          IF success
          THEN Set(p, [proc[p] EXCEPT !.gen_calls = @ + GenCall(p),
                                      !.send_calls = @ + 1,
                                      !.mail = m, !.pc = "log"])
          ELSE Set(p, FailedSend([proc[p] EXCEPT !.gen_calls = @ + GenCall(p),
                                                 !.send_calls = @ + 1]))
    /\ UNCHANGED <<store, today, config, runs, classified, pickvars>>

\* Application(...) of a job or row; sent_at defaults to utcnow().
ApplicationOfJob(job, mail, day) ==
    [job_title |-> job.title, company |-> job.company,
     recipient_email |-> job.application_email,
     subject |-> mail.subject, body |-> mail.body,
     source |-> job.source, sent_at |-> day, status |-> "sent"]

ApplicationOfDraftGeneratedAgain(draft, day) ==
    [job_title |-> draft.job_title, company |-> draft.company,
     recipient_email |-> draft.recipient_email,
     subject |-> "Application", body |-> "Regenerated",
     source |-> draft.source, sent_at |-> day, status |-> "sent"]

\* Application(...) of a draft.
ApplicationOfDraft(draft, day) ==
    [job_title |-> draft.job_title, company |-> draft.company,
     recipient_email |-> draft.recipient_email,
     subject |-> draft.subject, body |-> draft.body,
     source |-> draft.source, sent_at |-> day, status |-> "sent"]

\* log_application(application); applied_count += 1; applications_sent += 1.
\* send_approved_drafts goes on to update_draft_status before it counts.
LoopLog(p) ==
    /\ proc[p].pc = "log"
    /\ LET c == Head(proc[p].work)
       IN  IF proc[p].wf = "send_drafts"
           THEN /\ applications' =
                       log_application(ApplicationOfDraft(c, today), applications)
                /\ Set(p, [proc[p] EXCEPT !.pc = "set_sent"])
           ELSE /\ applications' =
                       log_application(ApplicationOfJob(c, proc[p].mail, today),
                                       applications)
                /\ Set(p, [proc[p] EXCEPT !.pc = "loop", !.work = Tail(@),
                                          !.mail = IdleProc.mail,
                                          !.applied_count = @ + 1,
                                          !.applications_sent = @ + 1])
    /\ UNCHANGED <<seen_jobs, drafts, draft_seq, today, config, runs,
                   classified, pickvars>>

\* update_draft_status(draft["id"], "sent"); sent_count += 1
LoopSetSent(p) ==
    /\ proc[p].pc = "set_sent"
    /\ drafts' = update_draft_status(Head(proc[p].work).id, "sent", drafts)
    /\ Set(p, [proc[p] EXCEPT !.pc = "loop", !.work = Tail(@),
                              !.mail = IdleProc.mail,
                              !.applied_count = @ + 1,
                              !.applications_sent = @ + 1])
    /\ UNCHANGED <<seen_jobs, applications, draft_seq, today, config, runs,
                   classified, pickvars>>

-----------------------------------------------------------------------------
(* src/agent.py: generate_drafts, the drafting loop.                        *)

DraftOfRow(row, mail) ==
    [job_unique_key |-> row.unique_key, job_title |-> row.title,
     company |-> row.company, recipient_email |-> row.application_email,
     subject |-> mail.subject, body |-> mail.body, source |-> row.source]

\* subject, body = generate_application_email(...); save_draft(...)
DraftLoop(p) ==
    /\ proc[p].pc = "draft_loop"
    /\ proc[p].work # <<>>
    /\ \E m \in GeneratedMails :
          /\ drafts' = save_draft(DraftOfRow(Head(proc[p].work), m), drafts, draft_seq)
          /\ draft_seq' = draft_seq + 1
    /\ Set(p, [proc[p] EXCEPT !.gen_calls = @ + 1, !.drafts_created = @ + 1,
                              !.work = Tail(@)])
    /\ UNCHANGED <<seen_jobs, applications, today, config, runs, classified,
                   pickvars>>

DraftLoopEnd(p) ==
    /\ proc[p].pc = "draft_loop"
    /\ proc[p].work = <<>>
    /\ Set(p, [proc[p] EXCEPT !.pc = "done"])
    /\ UNCHANGED <<store, today, config, runs, classified, pickvars>>

-----------------------------------------------------------------------------
(* src/agent.py: send_approved_drafts, the choice of the drafts.            *)

DraftsToSendAnyStatus(send_all, drs) ==
    get_drafts("approved", drs)
        \o (IF send_all THEN get_drafts("pending", drs) \o get_drafts("discarded", drs)
                             \o get_drafts("sent", drs)
            ELSE <<>>)

\* drafts = get_drafts(status="approved"); if send_all: drafts +=
\* get_drafts(status="pending")
DraftsToSend(send_all, drs) ==
    get_drafts("approved", drs) \o (IF send_all THEN get_drafts("pending", drs) ELSE <<>>)

\* The dedup loop: one draft per company, none of a company already sent to.
RECURSIVE DedupLoop(_, _, _, _)
DedupLoop(ds, seen_companies, already_sent, unique_drafts) ==
    IF ds = <<>> THEN unique_drafts
    ELSE LET draft == Head(ds)
             key == company_key(draft.company)
         IN  IF key \in seen_companies \/ key \in already_sent
             THEN DedupLoop(Tail(ds), seen_companies, already_sent, unique_drafts)
             ELSE DedupLoop(Tail(ds), seen_companies \cup {key}, already_sent,
                            Append(unique_drafts, draft))

\* if not drafts: return summary
GetDrafts(p) ==
    /\ proc[p].pc = "get_drafts"
    /\ LET ds == DraftsToSend(proc[p].send_all, drafts)
       IN  Set(p, [proc[p] EXCEPT !.candidates = ds,
                                  !.pc = IF ds = <<>> THEN "done" ELSE "dedup"])
    /\ UNCHANGED <<store, today, config, runs, classified, pickvars>>

\* already_sent = get_sent_companies(); if not unique_drafts: return summary
Dedup(p) ==
    /\ proc[p].pc = "dedup"
    /\ LET unique_drafts == DedupLoop(proc[p].candidates, {},
                                      get_sent_companies(applications), <<>>)
       IN  Set(p, [proc[p] EXCEPT !.candidates = <<>>, !.work = unique_drafts,
                                  !.pc = IF unique_drafts = <<>> THEN "done"
                                         ELSE "loop"])
    /\ UNCHANGED <<store, today, config, runs, classified, pickvars>>

-----------------------------------------------------------------------------
(* src/cli.py: approve, approve-all, discard.  A command line with several  *)
(* ids is the loop body once per id; one id is one command here.            *)

ApproveAllowedAlways(status) == TRUE

\* if draft["status"] == "sent": "already sent, skipping"
ApproveAllowed(status) == status # "sent"

DiscardAllowedAlways(status) == TRUE

\* if draft["status"] == "sent": "already sent, can't discard"
DiscardAllowed(status) == status # "sent"

Said(cmd, id, out) == [IdleProc EXCEPT !.pc = "done", !.wf = cmd, !.arg = id, !.out = out]

approve_drafts_cmd(p) ==
    /\ proc[p].pc = "idle"
    /\ runs < MaxRuns
    /\ runs' = runs + 1
    /\ \E id \in 1..(draft_seq + 1) :
          IF id \notin DraftIds(drafts)
          THEN Set(p, Said("approve", id, "not found")) /\ UNCHANGED drafts
          ELSE IF ~ ApproveAllowed(get_draft_by_id(id, drafts).status)
          THEN Set(p, Said("approve", id, "already sent")) /\ UNCHANGED drafts
          ELSE /\ drafts' = update_draft_status(id, "approved", drafts)
               /\ Set(p, Said("approve", id, "approved"))
    /\ UNCHANGED <<seen_jobs, applications, draft_seq, today, config,
                   classified, pickvars>>

approve_all_drafts_cmd(p) ==
    /\ proc[p].pc = "idle"
    /\ runs < MaxRuns
    /\ runs' = runs + 1
    /\ LET pending == get_drafts("pending", drafts)
           ids == {pending[i].id : i \in DOMAIN pending}
       IN  IF pending = <<>>
           THEN Set(p, Said("approve-all", 0, "no pending drafts")) /\ UNCHANGED drafts
           ELSE /\ drafts' = [i \in DOMAIN drafts |->
                                IF drafts[i].id \in ids
                                THEN [drafts[i] EXCEPT !.status = "approved"]
                                ELSE drafts[i]]
                /\ Set(p, Said("approve-all", Len(pending), "approved"))
    /\ UNCHANGED <<seen_jobs, applications, draft_seq, today, config,
                   classified, pickvars>>

discard_drafts_cmd(p) ==
    /\ proc[p].pc = "idle"
    /\ runs < MaxRuns
    /\ runs' = runs + 1
    /\ \E id \in 1..(draft_seq + 1) :
          IF id \notin DraftIds(drafts)
          THEN Set(p, Said("discard", id, "not found")) /\ UNCHANGED drafts
          ELSE IF ~ DiscardAllowed(get_draft_by_id(id, drafts).status)
          THEN Set(p, Said("discard", id, "already sent")) /\ UNCHANGED drafts
          ELSE /\ drafts' = update_draft_status(id, "discarded", drafts)
               /\ Set(p, Said("discard", id, "discarded"))
    /\ UNCHANGED <<seen_jobs, applications, draft_seq, today, config,
                   classified, pickvars>>

-----------------------------------------------------------------------------
(* The command returns.                                                     *)

Exit(p) ==
    /\ proc[p].pc = "done"
    /\ Set(p, IdleProc)
    /\ UNCHANGED <<store, today, config, runs, classified, pickvars>>

-----------------------------------------------------------------------------
(* The pipeline used as documented: one command at a time.                  *)

Command(p) ==
    \/ StartRun(p)
    \/ StartSendPending(p)
    \/ StartGenerateDrafts(p)
    \/ StartSendDrafts(p)
    \/ Pending(p)
    \/ Select(p)
    \/ LoopEnd(p)
    \/ LoopBreak(p)
    \/ LoopDryRun(p)
    \/ LoopSend(p)
    \/ LoopLog(p)
    \/ LoopSetSent(p)
    \/ DraftLoop(p)
    \/ DraftLoopEnd(p)
    \/ GetDrafts(p)
    \/ Dedup(p)
    \/ approve_drafts_cmd(p)
    \/ approve_all_drafts_cmd(p)
    \/ discard_drafts_cmd(p)
    \/ Exit(p)

Filtering(p, jobs) ==
    \/ FilterCheck(p, jobs)
    \/ FilterMark(p)
    \/ FilterEnd(p)

Next ==
    \/ \E p \in MainProcs : Command(p)
    \/ \E p \in MainProcs : Filtering(p, ScrapedJobs)
    \/ \E p \in MainProcs : Scrape(p, ScrapeLengths)

Spec == Init /\ [][Next]_vars

-----------------------------------------------------------------------------
(* The draft life cycle: generate-drafts, the draft commands and            *)
(* send-approved-drafts, from the store a dry full run leaves after it has  *)
(* scraped JobA1, JobA2 and JobE1.                                          *)

RECURSIVE MarkAll(_, _)
MarkAll(jobs, seen) ==
    IF jobs = <<>> THEN seen ELSE MarkAll(Tail(jobs), mark_job_seen(Head(jobs), seen))

DraftSeed == <<JobA1, JobA2, JobE1>>

InitDrafts ==
    /\ seen_jobs = MarkAll(DraftSeed, <<>>)
    /\ classified = [i \in DOMAIN DraftSeed |-> unique_key(DraftSeed[i])]
    /\ applications = <<>>
    /\ drafts = <<>>
    /\ draft_seq = 0
    /\ today = 0
    /\ \E l \in Limits : /\ max_applications_per_day = l[1]
                         /\ max_applications_per_run = l[2]
    /\ proc = [p \in Procs |-> IdleProc]
    /\ runs = 0
    /\ PickOff

DraftCommand(p) ==
    \/ StartGenerateDrafts(p)
    \/ Pending(p)
    \/ Select(p)
    \/ DraftLoop(p)
    \/ DraftLoopEnd(p)
    \/ StartSendDrafts(p)
    \/ GetDrafts(p)
    \/ Dedup(p)
    \/ LoopEnd(p)
    \/ LoopBreak(p)
    \/ LoopDryRun(p)
    \/ LoopSend(p)
    \/ LoopLog(p)
    \/ LoopSetSent(p)
    \/ approve_drafts_cmd(p)
    \/ approve_all_drafts_cmd(p)
    \/ discard_drafts_cmd(p)
    \/ Exit(p)

NextDrafts == \E p \in MainProcs : DraftCommand(p)

SpecDrafts == InitDrafts /\ [][NextDrafts]_vars

Statuses == {"pending", "approved", "sent", "discarded"}

\* A caller of src/db.py uses update_draft_status directly; the call returns
\* whether the draft existed.
StoreUpdateDraftStatus(p) ==
    /\ proc[p].pc = "idle"
    /\ runs < MaxRuns
    /\ runs' = runs + 1
    /\ \E id \in 1..(draft_seq + 1), status \in Statuses :
          /\ drafts' = update_draft_status(id, status, drafts)
          /\ Set(p, [IdleProc EXCEPT !.pc = "done", !.wf = "update_draft_status",
                                     !.arg = id, !.out = status])
    /\ UNCHANGED <<seen_jobs, applications, draft_seq, today, config,
                   classified, pickvars>>

NextStore ==
    \/ NextDrafts
    \/ \E p \in MainProcs : StoreUpdateDraftStatus(p)

SpecStore == InitDrafts /\ [][NextStore]_vars

-----------------------------------------------------------------------------
(* _pick_best_per_company as a function: any list of jobs or rows, any set  *)
(* of contacted companies.                                                  *)

Frontend == <<"F", "r", "o", "n", "t", "e", "n", "d">>
FrontEnd == <<"F", "r", "o", "n", "t", " ", "E", "n", "d">>
AcmeSpaced == <<" ", "A", "C", "M", "E", " ">>
Bolt == <<"B", "o", "l", "t">>

PickJob(title, company, description) ==
    [title |-> title, company |-> company, description |-> description]

PickInputs ==
    {PickJob(FullStack, Acme, <<>>),        \* Acme, 50
     PickJob(Backend, AcmeSpaced, React),   \* the same employer, 120
     PickJob(Frontend, AcmeLower, <<>>),    \* the same employer, 30
     PickJob(Frontend, Bolt, <<>>),         \* Bolt, 30
     PickJob(FrontEnd, Bolt, <<>>),         \* Bolt, 30 again
     PickJob(Backend, Ecole, <<>>)}         \* Ecole, 20

PickKeys == {company_key(j.company) : j \in PickInputs}

InitPick ==
    /\ InitStore
    /\ today = 0
    /\ max_applications_per_day = 0
    /\ max_applications_per_run = 0
    /\ proc = [p \in Procs |-> IdleProc]
    /\ runs = 0
    /\ finder = FinderOff
    /\ pick_jobs \in SeqsUpTo(PickInputs, MaxPickLen)
    /\ pick_contacted \in SUBSET PickKeys
    /\ pick_out = <<>>
    /\ pick_pc = "call"

CallPick ==
    /\ pick_pc = "call"
    /\ pick_out' = pick_best_per_company(pick_jobs, pick_contacted)
    /\ pick_pc' = "ret"
    /\ UNCHANGED <<store, today, config, proc, runs, classified, pick_jobs,
                   pick_contacted, finder>>

NextPick == CallPick

SpecPick == InitPick /\ [][NextPick]_vars

-----------------------------------------------------------------------------
(* The rate limiter on the documented example: max_applications_per_day 5,  *)
(* max_applications_per_run 10, three applications sent today, ten eligible *)
(* jobs of ten employers: scraped by a full run, or already in the store    *)
(* for send-pending.  One command runs.                                     *)

Megacorp == <<"M", "e", "g", "a">>

\* The i-th of the ten jobs.
TenJob(i) ==
    [title |-> Backend, company |-> <<"C", "o", LowerAscii[i]>>, description |-> <<>>,
     application_email |-> "jobs@co.io", source |-> "linkedin",
     source_id |-> LowerAscii[i]]

TenJobs == [i \in 1..10 |-> TenJob(i)]

\* An application sent earlier today.
EarlierApplication(i) ==
    [job_title |-> FullStack, company |-> Megacorp \o <<LowerAscii[i]>>,
     recipient_email |-> "hr@mega.io", subject |-> "Application", body |-> "Hello",
     source |-> "linkedin", sent_at |-> 0, status |-> "sent"]

InitRateLimit ==
    /\ \/ seen_jobs = <<>>
       \/ seen_jobs = MarkAll(TenJobs, <<>>)
    /\ classified = [i \in DOMAIN seen_jobs |-> seen_jobs[i].unique_key]
    /\ applications = [i \in 1..3 |-> EarlierApplication(i)]
    /\ drafts = <<>>
    /\ draft_seq = 0
    /\ today = 0
    /\ max_applications_per_day = 5
    /\ max_applications_per_run = 10
    /\ proc = [p \in Procs |-> IdleProc]
    /\ runs = MaxRuns - 1
    /\ PickOff

\* The element of all_jobs the filter loop has reached.
TenJobsNext(p) ==
    IF proc[p].todo \in 1..10 THEN {TenJobs[11 - proc[p].todo]} ELSE {}

SendCommand(p) ==
    \/ StartRun(p)
    \/ StartSendPending(p)
    \/ Pending(p)
    \/ Select(p)
    \/ LoopEnd(p)
    \/ LoopBreak(p)
    \/ LoopDryRun(p)
    \/ LoopSend(p)
    \/ LoopLog(p)
    \/ Exit(p)

NextRateLimit ==
    \/ \E p \in MainProcs : SendCommand(p)
    \/ \E p \in MainProcs : Filtering(p, TenJobsNext(p))
    \/ \E p \in MainProcs : Scrape(p, {10})

SpecRateLimit == InitRateLimit /\ [][NextRateLimit]_vars

-----------------------------------------------------------------------------
(* Properties.                                                              *)

\* The employer key: the employer name trimmed and lower-cased.
EmployerKey(name) == py_lower(py_strip(name))

NoDuplicates(seq) == \A i, j \in DOMAIN seq : i # j => seq[i] # seq[j]

SendingWorkflows == {"run", "send_pending", "send_drafts"}

\* C1: across full runs, the seen-jobs table holds at most one row per identity
\* key, and a key is bucketed as new exactly once, when it is first observed:
\* the keys bucketed as new are pairwise different and are the keys of the table.
C1_SeenOncePerKey ==
    /\ NoDuplicates([i \in DOMAIN seen_jobs |-> seen_jobs[i].unique_key])
    /\ NoDuplicates(classified)
    /\ {classified[i] : i \in DOMAIN classified} = RowKeys(seen_jobs)

\* A full run that is not the first command found two jobs, bucketed one as new
\* and dropped the other.
C1_Witness ==
    \E p \in Procs :
        /\ proc[p].wf = "run" /\ proc[p].pc = "done" /\ runs >= 2
        /\ proc[p].jobs_found = 2 /\ proc[p].jobs_new = 1
        /\ Len(seen_jobs) >= 2

\* C2: no two Application records have the same employer key.
C2_OneApplicationPerEmployer ==
    \A i, j \in DOMAIN applications :
        i # j => EmployerKey(applications[i].company)
                     # EmployerKey(applications[j].company)

\* The status of every draft that exists before and after a step either stays
\* or changes along one of the given edges.
StatusChangesWithin(edges) ==
    \A i \in DOMAIN drafts :
        i \in DOMAIN drafts' =>
            \/ drafts'[i].status = drafts[i].status
            \/ <<drafts[i].status, drafts'[i].status>> \in edges

FourEdges ==
    {<<"pending", "approved">>, <<"pending", "discarded">>,
     <<"approved", "sent">>, <<"approved", "discarded">>}

\* C3 as stated: every status change of a draft is one of pending->approved,
\* pending->discarded, approved->sent, approved->discarded.
C3_OnlyFourEdges == [][StatusChangesWithin(FourEdges)]_vars

\* C3: every status change of a draft is one of the four edges, or
\* discarded->approved, or pending->sent; pending->sent happens only in
\* send-approved-drafts with include-all; no status change leaves sent, and
\* discarded is left only for approved.
C3_StatusEdges ==
    [][/\ StatusChangesWithin(FourEdges \cup {<<"discarded", "approved">>,
                                              <<"pending", "sent">>})
       /\ \A i \in DOMAIN drafts :
            (i \in DOMAIN drafts' /\ drafts[i].status = "pending"
                                  /\ drafts'[i].status = "sent")
            => \E p \in Procs : /\ proc[p].wf = "send_drafts"
                                /\ proc[p].send_all
                                /\ proc[p].pc = "set_sent"
                                /\ Head(proc[p].work).id = drafts[i].id]_vars

\* send-approved-drafts, the second command after generate-drafts, has set a
\* draft to sent: the draft was pending until then.
C3_Witness ==
    /\ runs = 2
    /\ \E p \in Procs : proc[p].wf = "send_drafts" /\ proc[p].applications_sent >= 1
    /\ \E i \in DOMAIN drafts : drafts[i].status = "sent"

\* C4 as stated: no step changes the status of a draft whose status is sent.
C4_SentStaysSent ==
    [][\A i \in DOMAIN drafts :
          (i \in DOMAIN drafts' /\ drafts[i].status = "sent")
          => drafts'[i].status = "sent"]_vars

\* C4: approve and discard of a draft whose status is sent leave the drafts as
\* they are and report "already sent"; update_draft_status of the store sets
\* the status it is given on the draft it is given, whatever the draft's status.
C4_CommandsRejectSent ==
    [][\A p \in Procs :
          (proc[p].pc = "idle" /\ proc'[p].pc = "done"
                               /\ proc'[p].arg \in DraftIds(drafts))
          => /\ (/\ proc'[p].wf \in {"approve", "discard"}
                 /\ get_draft_by_id(proc'[p].arg, drafts).status = "sent")
                => (drafts' = drafts /\ proc'[p].out = "already sent")
             /\ proc'[p].wf = "update_draft_status"
                => get_draft_by_id(proc'[p].arg, drafts').status = proc'[p].out]_vars

\* discard has answered "already sent" for a draft, and the draft is sent.
C4_Witness ==
    \E p \in Procs :
        /\ proc[p].pc = "done" /\ proc[p].wf = "discard"
        /\ proc[p].out = "already sent"
        /\ proc[p].arg \in DraftIds(drafts)
        /\ get_draft_by_id(proc[p].arg, drafts).status = "sent"

\* The budget of an invocation: min(maxPerRun, maxPerDay - sentToday).
BudgetOf(p) ==
    Min(max_applications_per_run, max_applications_per_day - proc[p].apps_today)

Sending(p) == proc[p].wf \in SendingWorkflows /\ proc[p].pc # "idle"

\* C5: in full run, send-pending and send-approved-drafts the budget is
\* min(maxPerRun, maxPerDay - sentToday) with sentToday read from the store at
\* the start; the successful sends of the invocation, dry-run sends included,
\* never exceed it, and once they equal it the invocation makes no further
\* content-generation or delivery call.
C5_BudgetBoundsSends ==
    /\ [](\A p \in Procs :
            Sending(p) =>
                /\ proc[p].applications_sent <= BudgetOf(p)
                /\ proc[p].applied_count <= BudgetOf(p)
                /\ proc[p].pc \in {"log", "set_sent"}
                   => proc[p].applications_sent + 1 <= BudgetOf(p)
                /\ proc[p].remaining_today > 0 => proc[p].max_this_run = BudgetOf(p))
    /\ [][\A p \in Procs :
            /\ (proc[p].pc = "idle" /\ proc'[p].wf \in SendingWorkflows)
               => proc'[p].apps_today = get_applications_today(applications, today)
            /\ (Sending(p) /\ proc[p].applications_sent >= BudgetOf(p))
               => /\ proc'[p].gen_calls <= proc[p].gen_calls
                  /\ proc'[p].send_calls <= proc[p].send_calls]_vars

\* A sending loop stands before a further candidate with its budget used up.
C5_Witness ==
    \E p \in Procs :
        /\ Sending(p) /\ proc[p].pc = "loop" /\ proc[p].work # <<>>
        /\ proc[p].applications_sent = BudgetOf(p)
        /\ proc[p].gen_calls + proc[p].send_calls >= 1

\* C6 as stated: the run generates content and attempts delivery for at most
\* 2 candidates.
C6_AtMostTwoProcessed ==
    \A p \in Procs : proc[p].gen_calls <= 2 /\ proc[p].send_calls <= 2

\* C6: with maxPerDay = 5, 3 Applications sent today and maxPerRun = 10, a run
\* with 10 eligible candidates sends at most 2 and adds at most 2 Applications;
\* failed deliveries do not count, so the run processes at most 2 candidates
\* plus the ones whose delivery failed.
C6_AtMostTwoSent ==
    /\ Len(applications) <= 5
    /\ \A p \in Procs :
          /\ proc[p].applications_sent <= 2
          /\ proc[p].gen_calls <= 2 + proc[p].applications_failed
          /\ proc[p].send_calls <= 2 + proc[p].applications_failed

\* Two sent, one delivery failed, and the loop stands before a further
\* candidate.
C6_Witness ==
    \E p \in Procs :
        /\ proc[p].pc = "loop" /\ Len(proc[p].work) >= 1
        /\ proc[p].applications_sent = 2
        /\ proc[p].applications_failed >= 1
        /\ Len(applications) = 5

ApplicationsOfDay(day) == {i \in DOMAIN applications : applications[i].sent_at = day}

\* C7: the number of Application records sent in the day never exceeds
\* maxPerDay.
C7_DailyCap == Cardinality(ApplicationsOfDay(today)) <= max_applications_per_day

\* The day's remainder, smaller than maxPerRun, was the budget of a run that
\* used it up with a candidate left over, and the day is full.
C7_Witness ==
    \E p \in Procs :
        /\ Sending(p) /\ proc[p].pc = "loop" /\ proc[p].work # <<>>
        /\ ~ proc[p].dry_run
        /\ proc[p].max_this_run < max_applications_per_run
        /\ proc[p].applied_count = proc[p].max_this_run
        /\ Cardinality(ApplicationsOfDay(today)) = max_applications_per_day

\* C8: a full run, send-pending or send-approved-drafts that starts with
\* sentToday >= maxPerDay returns at once with zero sent and zero failed,
\* without a call to a source, to content generation or to delivery, and the
\* store is as it was.
C8_LimitReachedAborts ==
    [][\A p \in Procs :
          (/\ proc[p].pc = "idle"
           /\ proc'[p].wf \in SendingWorkflows
           /\ get_applications_today(applications, today) >= max_applications_per_day)
          => /\ proc'[p].pc = "done"
             /\ proc'[p].applications_sent = 0
             /\ proc'[p].applications_failed = 0
             /\ proc'[p].scrape_calls = 0
             /\ proc'[p].gen_calls = 0
             /\ proc'[p].send_calls = 0
             /\ UNCHANGED store]_vars

\* An invocation has returned at once on a day that already has an Application.
C8_Witness ==
    \E p \in Procs :
        /\ proc[p].pc = "done" /\ proc[p].wf \in SendingWorkflows
        /\ proc[p].remaining_today <= 0
        /\ proc[p].apps_today >= 1
        /\ proc[p].applications_sent = 0

KeyOfJob(job) == EmployerKey(job.company)

\* The places of the input whose employer is not excluded.
Eligible == {k \in DOMAIN pick_jobs : KeyOfJob(pick_jobs[k]) \notin pick_contacted}

EligibleOf(key) == {k \in Eligible : KeyOfJob(pick_jobs[k]) = key}

\* The earliest place among the highest-scoring jobs of an employer.
BestOf(key) ==
    SetMin({k \in EligibleOf(key) :
              \A m \in EligibleOf(key) :
                  job_priority_score(pick_jobs[m]) <= job_priority_score(pick_jobs[k])})

\* C9: the list the selection returns has no two jobs with the same employer
\* key, no job whose employer key is in the excluded set, and only jobs of the
\* input.
C9_OnePerEmployerNoneExcluded ==
    pick_pc = "ret" =>
        /\ \A i, j \in DOMAIN pick_out :
              i # j => KeyOfJob(pick_out[i]) # KeyOfJob(pick_out[j])
        /\ \A i \in DOMAIN pick_out : KeyOfJob(pick_out[i]) \notin pick_contacted
        /\ \A i \in DOMAIN pick_out : \E k \in DOMAIN pick_jobs : pick_jobs[k] = pick_out[i]

\* The input had two jobs of one employer and a job of an excluded employer;
\* one job came back.
C9_Witness ==
    /\ pick_pc = "ret"
    /\ Len(pick_out) = 1
    /\ \E i, j \in Eligible : i # j /\ KeyOfJob(pick_jobs[i]) = KeyOfJob(pick_jobs[j])
                                    /\ pick_jobs[i].company # pick_jobs[j].company
    /\ \E k \in DOMAIN pick_jobs : k \notin Eligible

\* C10: for each employer key of the input that is not excluded the selection
\* returns the highest-scoring job of that employer, the earliest of the
\* highest-scoring ones, and nothing else; the list is in the order in which
\* the employer keys first occur in the input.
C10_BestPerEmployerInOrder ==
    pick_pc = "ret" =>
        /\ {KeyOfJob(pick_out[i]) : i \in DOMAIN pick_out}
               = {KeyOfJob(pick_jobs[k]) : k \in Eligible}
        /\ Len(pick_out) = Cardinality({KeyOfJob(pick_jobs[k]) : k \in Eligible})
        /\ \A i \in DOMAIN pick_out :
              pick_out[i] = pick_jobs[BestOf(KeyOfJob(pick_out[i]))]
        /\ \A i, j \in DOMAIN pick_out :
              i < j => SetMin(EligibleOf(KeyOfJob(pick_out[i])))
                           < SetMin(EligibleOf(KeyOfJob(pick_out[j])))

\* The input is an Acme job, two Bolt jobs of equal score, then a better Acme
\* job: the better Acme job comes back first, then the earlier Bolt job.
C10_Witness ==
    /\ pick_pc = "ret"
    /\ pick_contacted = {}
    /\ pick_jobs = <<PickJob(FullStack, Acme, <<>>), PickJob(FrontEnd, Bolt, <<>>),
                     PickJob(Frontend, Bolt, <<>>), PickJob(Backend, AcmeSpaced, React)>>
    /\ pick_out = <<PickJob(Backend, AcmeSpaced, React), PickJob(FrontEnd, Bolt, <<>>)>>

\* The employer keys that have a draft whose status is pending, approved or sent.
EmployersWithOutstandingDraft ==
    {EmployerKey(drafts[i].company) :
        i \in {k \in DOMAIN drafts : drafts[k].status # "discarded"}}

\* C11: no job that full run, send-pending or generate-drafts has selected and
\* still has before it is of an employer that has a draft whose status is
\* pending, approved or sent.
C11_OutstandingDraftBlocksEmployer ==
    \A p \in Procs :
        proc[p].wf \in {"run", "send_pending", "draft"} =>
            \A i \in DOMAIN proc[p].work :
                EmployerKey(proc[p].work[i].company) \notin EmployersWithOutstandingDraft

\* The employer keys that have an Application.
EmployersWithApplication ==
    {EmployerKey(applications[i].company) : i \in DOMAIN applications}

\* C12: the drafts send-approved-drafts goes on to deliver, out of the drafts
\* it has read, are at most one per employer key and none of an employer key
\* that has an Application; every employer key among the drafts read that has
\* no Application is among them, whatever drafts that employer has.
C12_OneDraftPerUnsentEmployer ==
    [][\A p \in Procs :
          (proc[p].wf = "send_drafts" /\ proc[p].pc = "dedup" /\ proc'[p].pc # "dedup")
          => LET read == proc[p].candidates
                 chosen == proc'[p].work
             IN  /\ \A i, j \in DOMAIN chosen :
                       i # j => EmployerKey(chosen[i].company)
                                    # EmployerKey(chosen[j].company)
                 /\ \A i \in DOMAIN chosen :
                       EmployerKey(chosen[i].company) \notin EmployersWithApplication
                 /\ \A k \in DOMAIN read :
                       EmployerKey(read[k].company) \notin EmployersWithApplication
                       => \E i \in DOMAIN chosen :
                             EmployerKey(chosen[i].company)
                                 = EmployerKey(read[k].company)]_vars

\* The Application carries the draft's job title, employer, recipient, subject
\* and body.
Carries(app, draft) ==
    /\ app.job_title = draft.job_title
    /\ app.company = draft.company
    /\ app.recipient_email = draft.recipient_email
    /\ app.subject = draft.subject
    /\ app.body = draft.body

\* C13: in send-approved-drafts, not dry, a successful delivery of a draft is
\* followed by the insertion of exactly one Application that carries the
\* draft's job title, employer, recipient, subject and body, and then by the
\* draft's status becoming sent with no further Application; in every state
\* each draft with status sent has an Application that carries its fields.
C13_SentDraftHasApplication ==
    /\ [](\A i \in DOMAIN drafts :
            drafts[i].status = "sent"
            => \E k \in DOMAIN applications : Carries(applications[k], drafts[i]))
    /\ [][\A p \in Procs :
            /\ (proc[p].wf = "send_drafts" /\ proc[p].pc = "log" /\ proc'[p].pc # "log")
               => /\ proc'[p].pc = "set_sent"
                  /\ Len(applications') = Len(applications) + 1
                  /\ SubSeq(applications', 1, Len(applications)) = applications
                  /\ Carries(applications'[Len(applications')],
                             get_draft_by_id(Head(proc[p].work).id, drafts))
            /\ (proc[p].wf = "send_drafts" /\ proc[p].pc = "set_sent"
                                           /\ proc'[p].pc # "set_sent")
               => /\ applications' = applications
                  /\ get_draft_by_id(Head(proc[p].work).id, drafts').status = "sent"
                  /\ proc'[p].applications_sent = proc[p].applications_sent + 1]_vars

\* A send-approved-drafts invocation, not dry, has returned after a successful
\* delivery: a draft is sent and an Application is there.
C13_Witness ==
    \E p \in Procs :
        /\ proc[p].wf = "send_drafts" /\ ~ proc[p].dry_run /\ proc[p].pc = "done"
        /\ proc[p].applications_sent >= 1
        /\ \E i \in DOMAIN drafts : drafts[i].status = "sent"
        /\ applications # <<>>

\* The statuses send-approved-drafts delivers.
Deliverable(send_all) == IF send_all THEN {"approved", "pending"} ELSE {"approved"}

SentDrafts == {i \in DOMAIN drafts : drafts[i].status = "sent"}

\* C14: every delivery attempt of send-approved-drafts is for a draft whose
\* status in the store is approved, or approved or pending under include-all;
\* no draft is delivered successfully twice: with no run or send-pending
\* in between, the Applications are one per sent draft (one more while the
\* status update of the delivered draft is under way).
C14_DeliversOnlyDeliverable ==
    /\ [][\A p \in Procs :
            (/\ proc[p].wf = "send_drafts"
             /\ \/ proc'[p].send_calls > proc[p].send_calls
                \/ proc'[p].applications_sent > proc[p].applications_sent
                \/ proc'[p].pc = "log" /\ proc[p].pc # "log")
            => get_draft_by_id(Head(proc[p].work).id, drafts).status
                   \in Deliverable(proc[p].send_all)]_vars
    /\ [](Len(applications)
            = Cardinality(SentDrafts)
                + Cardinality({p \in Procs : proc[p].pc = "set_sent"}))

\* send-approved-drafts has attempted a delivery and returned while a
\* discarded draft is in the store.
C14_Witness ==
    \E p \in Procs :
        /\ proc[p].wf = "send_drafts" /\ proc[p].pc = "done"
        /\ proc[p].send_calls >= 1
        /\ \E i \in DOMAIN drafts : drafts[i].status = "discarded"

\* 1 while the invocation stands between a successful delivery and the count
\* of it, else 0.
Uncounted(p) ==
    IF proc[p].wf = "send_drafts" /\ proc[p].pc = "set_sent" THEN 1 ELSE 0

\* C15: a step that changes the Applications appends one record to them and
\* is the logging step after a successful delivery, not dry; the logging step
\* appends exactly one; a failed delivery and a dry-run send leave them as
\* they are; so an invocation that started with n Applications and has counted
\* k successful deliveries has n + k Applications (n when dry), and its
\* delivery calls are its successes plus its failures.
C15_ApplicationsAppendOnly ==
    /\ [][/\ applications' # applications
             => /\ Len(applications') = Len(applications) + 1
                /\ SubSeq(applications', 1, Len(applications)) = applications
                /\ \E p \in Procs : /\ proc[p].pc = "log" /\ ~ proc[p].dry_run
                                    /\ proc'[p].pc # "log"
          /\ \A p \in Procs :
                /\ (proc[p].pc = "log" /\ proc'[p].pc # "log")
                   => Len(applications') = Len(applications) + 1
                /\ proc'[p].applications_failed > proc[p].applications_failed
                   => applications' = applications
                /\ (proc[p].dry_run /\ proc[p].pc # "idle")
                   => applications' = applications]_vars
    /\ [](\A p \in Procs :
            Sending(p) =>
                /\ Len(applications)
                     = proc[p].apps_today
                         + (IF proc[p].dry_run THEN 0
                            ELSE proc[p].applications_sent + Uncounted(p))
                /\ ~ proc[p].dry_run
                   => proc[p].send_calls
                        = proc[p].applications_sent + proc[p].applications_failed
                            + Uncounted(p) + (IF proc[p].pc = "log" THEN 1 ELSE 0))

\* An invocation, not dry, has returned with one delivery failed and one
\* succeeded.
C15_Witness ==
    \E p \in Procs :
        /\ Sending(p) /\ ~ proc[p].dry_run /\ proc[p].pc = "done"
        /\ proc[p].applications_sent >= 1
        /\ proc[p].applications_failed >= 1
        /\ Len(applications) >= 1

\* The seen jobs pendingJobs() is to return.
IsPending(row) ==
    /\ row.application_email # ""
    /\ \A a \in DOMAIN applications :
          ~ (applications[a].job_title = row.title
               /\ applications[a].company = row.company)
    /\ \A d \in DOMAIN drafts : drafts[d].job_unique_key # row.unique_key

PendingNow == get_pending_jobs(seen_jobs, applications, drafts)

\* C16: in every state of the store pendingJobs() returns each seen job that
\* has a contact address, no Application of the same title and employer and
\* no draft of its identity key, each once, no other row, the later
\* discovered before the earlier.
C16_PendingJobsExact ==
    LET pending == PendingNow
        wanted == {k \in DOMAIN seen_jobs : IsPending(seen_jobs[k])}
    IN  /\ Len(pending) = Cardinality(wanted)
        /\ \A k \in wanted : \E i \in DOMAIN pending : pending[i] = seen_jobs[k]
        /\ \A i \in DOMAIN pending :
              \E k \in wanted : seen_jobs[k] = pending[i]
        /\ \A i, j \in DOMAIN pending :
              i < j => pending[i].discovered_at > pending[j].discovered_at

\* Two jobs are pending, a third seen job with an address has an Application
\* of its title and employer and is not pending.
C16_Witness ==
    /\ Len(PendingNow) >= 2
    /\ \E k \in DOMAIN seen_jobs :
          /\ seen_jobs[k].application_email # ""
          /\ \E a \in DOMAIN applications :
                /\ applications[a].job_title = seen_jobs[k].title
                /\ applications[a].company = seen_jobs[k].company
          /\ \A i \in DOMAIN PendingNow : PendingNow[i] # seen_jobs[k]

-----------------------------------------------------------------------------
(* src/db.py: mark_job_seen called directly, on keys that are new and on    *)
(* keys that are present.                                                   *)

\* The posting of JobA1 (same source and native id) sighted again with another
\* title, employer spelling, description and address.
JobA1c == [title |-> Backend, company |-> AcmeLower, description |-> React,
           application_email |-> "jobs@acme.io", source |-> "linkedin", source_id |-> "1"]

\* The posting of JobA2 (no native id) sighted with the employer's name in
\* another case.
JobA2c == [title |-> Backend, company |-> Acme, description |-> <<>>,
           application_email |-> "jobs@acme.io", source |-> "twitter", source_id |-> ""]

Sightings == ScrapedJobs \cup {JobA1c, JobA2c}

StoreMarkJobSeen(p) ==
    /\ proc[p].pc = "idle"
    /\ runs < MaxRuns
    /\ runs' = runs + 1
    /\ \E job \in Sightings :
          /\ seen_jobs' = mark_job_seen(job, seen_jobs)
          /\ Set(p, [IdleProc EXCEPT !.pc = "done", !.wf = "mark_job_seen", !.job = job])
    /\ UNCHANGED <<applications, drafts, draft_seq, today, config, classified,
                   pickvars>>

NextSeen == \E p \in MainProcs : StoreMarkJobSeen(p) \/ Exit(p)

SpecSeen == Init /\ [][NextSeen]_vars

\* C17: marking a job whose identity key is present leaves the seen-jobs table
\* as it is, whatever title, employer, description and address the job
\* carries; marking a job whose key is absent appends its row; no step changes
\* a row that is there.
C17_SeenEntryWriteOnce ==
    [][/\ \A i \in DOMAIN seen_jobs :
             i \in DOMAIN seen_jobs' /\ seen_jobs'[i] = seen_jobs[i]
       /\ \A p \in Procs :
             (proc[p].pc = "idle" /\ proc'[p].wf = "mark_job_seen")
             => IF unique_key(proc'[p].job) \in RowKeys(seen_jobs)
                THEN seen_jobs' = seen_jobs
                ELSE /\ Len(seen_jobs') = Len(seen_jobs) + 1
                     /\ seen_jobs'[Len(seen_jobs')].unique_key = unique_key(proc'[p].job)
                     /\ seen_jobs'[Len(seen_jobs')].application_email
                            = proc'[p].job.application_email]_vars

\* The posting first seen without an address has been marked again with an
\* address and another title; its row has no address.
C17_Witness ==
    \E p \in Procs :
        /\ proc[p].pc = "done" /\ proc[p].wf = "mark_job_seen"
        /\ proc[p].job = JobA1c
        /\ \E i \in DOMAIN seen_jobs :
              /\ seen_jobs[i].unique_key = unique_key(JobA1c)
              /\ seen_jobs[i].application_email = ""
              /\ seen_jobs[i].title = FullStack

\* The jobs a full run has bucketed as new with an address and not yet
\* finished with.
InHand(p) ==
    {proc[p].candidates[i] : i \in DOMAIN proc[p].candidates}
        \cup {proc[p].work[i] : i \in DOMAIN proc[p].work}

\* C18: the filtering step of a full run records every new job as seen, with
\* or without an address; no full run takes up a job whose key was first
\* recorded without an address (a job it has in hand is the very one its seen
\* row was written from), and pendingJobs() returns no row without an address.
C18_RecordedWithoutAddressStaysOut ==
    /\ [][\A p \in Procs :
            (proc[p].wf = "run" /\ proc[p].pc = "mark" /\ proc'[p].pc # "mark")
            => /\ unique_key(proc[p].job) \notin RowKeys(seen_jobs)
               /\ Len(seen_jobs') = Len(seen_jobs) + 1
               /\ seen_jobs'[Len(seen_jobs')].unique_key = unique_key(proc[p].job)
               /\ seen_jobs'[Len(seen_jobs')].application_email
                      = proc[p].job.application_email]_vars
    /\ [](\A p \in Procs :
            proc[p].wf = "run" =>
                \A job \in InHand(p) :
                    \E k \in DOMAIN seen_jobs :
                        /\ seen_jobs[k].unique_key = unique_key(job)
                        /\ seen_jobs[k].application_email = job.application_email
                        /\ job.application_email # "")
    /\ [](\A k \in DOMAIN seen_jobs :
            seen_jobs[k].application_email = ""
            => \A i \in DOMAIN PendingNow :
                  PendingNow[i].unique_key # seen_jobs[k].unique_key)

\* A later full run has found one job and dropped it; the store has the one
\* posting, recorded without an address, and nothing is pending.
C18_Witness ==
    \E p \in Procs :
        /\ proc[p].wf = "run" /\ proc[p].pc = "done" /\ runs >= 2
        /\ proc[p].jobs_found = 1 /\ proc[p].jobs_new = 0
        /\ Len(seen_jobs) = 1
        /\ seen_jobs[1].application_email = ""
        /\ PendingNow = <<>>

\* Two records of one source with the same non-empty native id.
SameNativeId(a, b) ==
    a.source = b.source /\ a.source_id = b.source_id /\ a.source_id # ""

\* Two records without native id whose source, title and employer differ at
\* most in letter case.
SameButForCase(a, b) ==
    /\ a.source_id = "" /\ b.source_id = ""
    /\ a.source = b.source
    /\ py_lower(a.title) = py_lower(b.title)
    /\ py_lower(a.company) = py_lower(b.company)

\* C19: the identity key of a record is source:native id when the native id is
\* non-empty, else the lower-case fold of source:title:employer; the key a seen
\* row was stored under is the key of its fields computed again; a record and
\* a seen row with the same source and non-empty native id, or without native
\* id and alike but for letter case, have the same key.
C19_IdentityKey ==
    /\ \A k \in DOMAIN seen_jobs : seen_jobs[k].unique_key = unique_key(seen_jobs[k])
    /\ \A p \in Procs :
          proc[p].wf = "mark_job_seen" =>
              LET job == proc[p].job
                  key == unique_key(job)
              IN  /\ job.source_id # "" => key = <<job.source, ":", job.source_id>>
                  /\ job.source_id = ""
                     => /\ Len(key) = 3 + Len(job.title) + Len(job.company)
                        /\ \A i \in DOMAIN key : key[i] \notin {UpperAscii[n] : n \in DOMAIN UpperAscii} \cup {"U00C9"}
                        /\ py_lower(key) = py_lower(<<job.source, ":">> \o job.title
                                                    \o <<":">> \o job.company)
                  /\ \A k \in DOMAIN seen_jobs :
                        (SameNativeId(seen_jobs[k], job) \/ SameButForCase(seen_jobs[k], job))
                        => seen_jobs[k].unique_key = key

\* A record without native id has been marked whose employer differs in case
\* from the one of the seen row of its key; and a row with a native id is
\* there whose title differs from that of a record of its key.
C19_Witness ==
    \E p \in Procs :
        /\ proc[p].pc = "done" /\ proc[p].wf = "mark_job_seen"
        /\ proc[p].job = JobA2c
        /\ \E k \in DOMAIN seen_jobs :
              /\ seen_jobs[k].unique_key = unique_key(JobA2c)
              /\ seen_jobs[k].company = AcmeLower
        /\ \E k \in DOMAIN seen_jobs :
              /\ seen_jobs[k].unique_key = unique_key(JobA1)
              /\ seen_jobs[k].title = Backend

-----------------------------------------------------------------------------
(* src/agent.py: _job_priority_score called on one job.                     *)

ScoreTitles ==
    {<<"F", "u", "l", "l", " ", "S", "t", "a", "c", "k", " ", "F", "r", "o", "n", "t", "e", "n", "d", " ", "D", "e", "v">>,
     <<"B", "a", "c", "k", "e", "n", "d", " ", "F", "r", "o", "n", "t", " ", "E", "n", "d">>,
     <<"F", "u", "l", "l", "s", "t", "a", "c", "k", " ", "B", "a", "c", "k", "-", "E", "n", "d">>,
     <<"F", "R", "O", "N", "T", "E", "N", "D">>,
     <<"B", "a", "c", "k", "-", "e", "n", "d">>,
     <<"E", "n", "g", "i", "n", "e", "e", "r">>,
     <<"N", "o", "d", "e", " ", "J", "S">>,
     <<"R", "e", "a", "c", "t", " ", "N", "a", "t", "i", "v", "e", " ", "D", "e", "v">>}

ScoreDescriptions ==
    {<<>>,
     <<"R", "e", "a", "c", "t">>,
     <<"W", "e", " ", "u", "s", "e", " ", "r", "e", "a", "c", "t", " ", "n", "a", "t", "i", "v", "e">>,
     <<"T", "y", "p", "e", "S", "c", "r", "i", "p", "t">>,
     <<"P", "y", "t", "h", "o", "n">>,
     <<"n", "e", "x", "t", "j", "s", " ", "b", "a", "c", "k", "e", "n", "d">>,
     <<"N", "a", "t", "i", "v", "e">>}

ScoreInputs ==
    {PickJob(t, Acme, d) : t \in ScoreTitles, d \in ScoreDescriptions}

InitScore ==
    /\ InitStore
    /\ today = 0
    /\ max_applications_per_day = 0
    /\ max_applications_per_run = 0
    /\ proc = [p \in Procs |-> IdleProc]
    /\ runs = 0
    /\ finder = FinderOff
    /\ pick_jobs \in {<<j>> : j \in ScoreInputs}
    /\ pick_contacted = {}
    /\ pick_out = <<>>
    /\ pick_pc = "score"

CallScore ==
    /\ pick_pc = "score"
    /\ pick_out' = <<[job |-> pick_jobs[1], score |-> job_priority_score(pick_jobs[1])]>>
    /\ pick_pc' = "scored"
    /\ UNCHANGED <<store, today, config, proc, runs, classified, pick_jobs,
                   pick_contacted, finder>>

NextScore == CallScore

SpecScore == InitScore /\ [][NextScore]_vars

\* The keyword occurs in the text.
Occurs(kw, text) ==
    \E i \in 1..(Len(text) - Len(kw) + 1) : SubSeq(text, i, i + Len(kw) - 1) = kw

OccursAny(kws, text) == \E n \in DOMAIN kws : Occurs(kws[n], text)

\* The role bonuses the title matches: 50 full stack, 30 frontend, 20 backend.
MatchedRoleBonuses(title) ==
    {0} \cup (IF OccursAny(FullStackKeywords, title) THEN {50} ELSE {})
        \cup (IF OccursAny(FrontendKeywords, title) THEN {30} ELSE {})
        \cup (IF OccursAny(BackendKeywords, title) THEN {20} ELSE {})

ExpectedScore(job) ==
    LET title == py_lower(job.title)
        text == title \o <<" ">> \o py_lower(job.description)
    IN  (IF OccursAny(JsKeywords, text) THEN 100 ELSE 0)
        + SetMax(MatchedRoleBonuses(title))
        + (IF Occurs(ReactNative, text) THEN 40 ELSE 0)

\* C20: the score of a job is 100 if a JS/TS keyword occurs in title and
\* description, plus the one role bonus of highest priority the title matches
\* (50 full stack, else 30 frontend, else 20 backend, else 0), plus 40 if
\* "react native" occurs in title and description; computing it changes
\* neither the store nor the job.
C20_ScoreFormula ==
    /\ [](pick_pc = "scored"
            => /\ pick_out[1].score = ExpectedScore(pick_jobs[1])
               /\ pick_out[1].job = pick_jobs[1])
    /\ [][pick_pc = "score" => UNCHANGED <<store, pick_jobs, proc>>]_vars

\* The score of a job whose title matches the full-stack and the frontend
\* keywords and whose description mentions react native is 190.
C20_Witness ==
    /\ pick_pc = "scored"
    /\ Cardinality(MatchedRoleBonuses(py_lower(pick_jobs[1].title))) = 3
    /\ Occurs(ReactNative, py_lower(pick_jobs[1].description))
    /\ pick_out[1].score = 190

-----------------------------------------------------------------------------
(* src/agent.py: _job_priority_score called on a job and on the same job    *)
(* with a JS/TS keyword appended to its title.                              *)

\* title + " " + keyword
WithKeyword(job, kw) == [job EXCEPT !.title = @ \o <<" ">> \o kw]

KeywordInputs ==
    {PickJob(t, Acme, d) : t \in ScoreTitles \cup {React}, d \in ScoreDescriptions}

InitKeyword ==
    /\ InitStore
    /\ today = 0
    /\ max_applications_per_day = 0
    /\ max_applications_per_run = 0
    /\ proc = [p \in Procs |-> IdleProc]
    /\ runs = 0
    /\ finder = FinderOff
    /\ pick_jobs \in {<<j, WithKeyword(j, JsKeywords[n])>> :
                         j \in KeywordInputs, n \in DOMAIN JsKeywords}
    /\ pick_contacted = {}
    /\ pick_out = <<>>
    /\ pick_pc = "score"

CallScoreBoth ==
    /\ pick_pc = "score"
    /\ pick_out' = [i \in DOMAIN pick_jobs |->
                      [job |-> pick_jobs[i], score |-> job_priority_score(pick_jobs[i])]]
    /\ pick_pc' = "scored"
    /\ UNCHANGED <<store, today, config, proc, runs, classified, pick_jobs,
                   pick_contacted, finder>>

NextKeyword == CallScoreBoth

SpecKeyword == InitKeyword /\ [][NextKeyword]_vars

\* C21: the score of a job with a JS/TS keyword appended to its title is at
\* least the score of the job.
C21_KeywordNeverLowersScore ==
    pick_pc = "scored" => pick_out[2].score >= pick_out[1].score

-----------------------------------------------------------------------------
(* src/agent.py 237-249: log_application raises (sqlite3.Error) after a     *)
(* delivery that succeeded.  The call is in no try block of run_agent or    *)
(* send_pending, and cli.run has none: the exception leaves the workflow.   *)
(* Nothing was committed, no counter was changed, no summary is returned.   *)

LoopLogRaises(p) ==
    /\ proc[p].pc = "log"
    /\ Set(p, [proc[p] EXCEPT !.pc = "fault"])
    /\ UNCHANGED <<store, today, config, runs, classified, pickvars>>

NextLogFault ==
    \/ NextRateLimit
    \/ \E p \in MainProcs : LoopLogRaises(p)

SpecLogFault == InitRateLimit /\ [][NextLogFault]_vars

\* C22: a step that leaves the persisting of the Application without a new
\* row counts the candidate as failed, consumes no budget, and the workflow
\* goes on to return its summary.
C22_LogFailureIsFailedSend ==
    [][\A p \in Procs :
          (proc[p].pc = "log" /\ proc'[p].pc # "log" /\ applications' = applications)
              => /\ proc'[p].applications_failed = proc[p].applications_failed + 1
                 /\ proc'[p].applied_count = proc[p].applied_count
                 /\ proc'[p].pc \in {"loop", "done"}]_vars

-----------------------------------------------------------------------------
(* generate-drafts                                                          *)

Drafting(p) == proc[p].wf = "draft"

\* The drafts the store held when the command started.
DraftsBefore(p) == SubSeq(drafts, 1, Len(drafts) - proc[p].drafts_created)

\* What selection returns over pendingJobs() for that store.
SelectedForDrafting(p) ==
    pick_best_per_company(
        get_pending_jobs(seen_jobs, applications, DraftsBefore(p)),
        get_contacted_companies(applications, DraftsBefore(p)))

\* C23: generate-drafts never calls the delivery, never adds an Application,
\* and, whatever the budget, ends with exactly one new pending draft for
\* each job that selection returns over the pending jobs.
C23_DraftingUngatedNoSend ==
    /\ [](\A p \in Procs : Drafting(p) =>
            /\ proc[p].send_calls = 0
            /\ proc[p].drafts_created <= Len(drafts)
            /\ proc[p].pc = "done" =>
                 LET sel == SelectedForDrafting(p)
                     old == Len(DraftsBefore(p))
                 IN  /\ proc[p].drafts_created = Len(sel)
                     /\ \A i \in DOMAIN sel :
                          /\ drafts[old + i].job_unique_key = sel[i].unique_key
                          /\ drafts[old + i].status = "pending")
    /\ [][\A p \in Procs : (Drafting(p) /\ proc'[p].wf = "draft") =>
            /\ applications' = applications
            /\ Len(drafts') - Len(drafts)
                  = proc'[p].drafts_created - proc[p].drafts_created]_vars

\* A generate-drafts that created a draft on a day whose budget was used up.
C23_Witness ==
    \E p \in Procs :
        /\ Drafting(p)
        /\ proc[p].pc = "done"
        /\ proc[p].drafts_created >= 1
        /\ max_applications_per_day >= 1
        /\ get_applications_today(applications, today) >= max_applications_per_day

-----------------------------------------------------------------------------
(* src/cli.py: edit-draft; src/db.py: update_draft_content, delete_draft.   *)

\* UPDATE drafts SET subject = ?, body = ? WHERE id = ?
update_draft_content(id, subject, body, drs) ==
    [i \in DOMAIN drs |-> IF drs[i].id = id
                          THEN [drs[i] EXCEPT !.subject = subject, !.body = body]
                          ELSE drs[i]]

\* DELETE FROM drafts WHERE id = ?
delete_draft(id, drs) == SelectSeq(drs, LAMBDA d : d.id # id)

EditAllowedAlways(status) == TRUE

\* if draft["status"] == "sent": "has already been sent, can't edit"
EditAllowed(status) == status # "sent"

RECURSIVE Text(_)
\* The str of a sequence of characters.
Text(chars) == IF chars = <<>> THEN "" ELSE Head(chars) \o Text(Tail(chars))

\* --subject: not given (None, or empty, which `subject or ...` treats alike)
\* or a new subject line.
EditSubjects == {"", "Application", "Frontend role"}

\* --body-file: not given, or the text of the file.
NoFile == [given |-> FALSE, text |-> <<>>]
EditFiles ==
    {NoFile,
     [given |-> TRUE, text |-> <<" ", "H", "i", "\n">>],
     [given |-> TRUE, text |-> <<"H", "e", "l", "l", "o", "\n">>]}

edit_draft_cmd(p) ==
    /\ proc[p].pc = "idle"
    /\ runs < MaxRuns
    /\ runs' = runs + 1
    /\ \E id \in 1..(draft_seq + 1), subject \in EditSubjects, body_file \in EditFiles :
          IF id \notin DraftIds(drafts)
          THEN Set(p, Said("edit", id, "not found")) /\ UNCHANGED drafts
          ELSE LET draft == get_draft_by_id(id, drafts)
                   new_subject == IF subject # "" THEN subject ELSE draft.subject
                   new_body == IF body_file.given
                               THEN Text(py_strip(body_file.text))
                               ELSE draft.body
               IN  IF ~ EditAllowed(draft.status)
                   THEN Set(p, Said("edit", id, "already sent")) /\ UNCHANGED drafts
                   ELSE IF new_subject = draft.subject /\ new_body = draft.body
                   THEN Set(p, Said("edit", id, "no changes")) /\ UNCHANGED drafts
                   ELSE /\ drafts' = update_draft_content(id, new_subject, new_body, drafts)
                        /\ Set(p, Said("edit", id, "updated"))
    /\ UNCHANGED <<seen_jobs, applications, draft_seq, today, config,
                   classified, pickvars>>

\* A caller of src/db.py uses update_draft_content directly.
StoreUpdateDraftContent(p) ==
    /\ proc[p].pc = "idle"
    /\ runs < MaxRuns
    /\ runs' = runs + 1
    /\ \E id \in 1..(draft_seq + 1) :
          /\ drafts' = update_draft_content(id, "Frontend role", "Hi", drafts)
          /\ Set(p, Said("update_draft_content", id, "Hi"))
    /\ UNCHANGED <<seen_jobs, applications, draft_seq, today, config,
                   classified, pickvars>>

\* A caller of src/db.py uses delete_draft directly.
StoreDeleteDraft(p) ==
    /\ proc[p].pc = "idle"
    /\ runs < MaxRuns
    /\ runs' = runs + 1
    /\ \E id \in 1..(draft_seq + 1) :
          /\ drafts' = delete_draft(id, drafts)
          /\ Set(p, Said("delete_draft", id, "deleted"))
    /\ UNCHANGED <<seen_jobs, applications, draft_seq, today, config,
                   classified, pickvars>>

NextEdit ==
    \/ NextStore
    \/ \E p \in MainProcs : edit_draft_cmd(p)
    \/ \E p \in MainProcs : StoreUpdateDraftContent(p)
    \/ \E p \in MainProcs : StoreDeleteDraft(p)

SpecEdit == InitDrafts /\ [][NextEdit]_vars

StoreCalls == {"update_draft_status", "update_draft_content", "delete_draft"}

\* The draft is in the store after the step with every field as before.
Kept(d) == \E j \in DOMAIN drafts' : drafts'[j] = d

\* C24: a draft whose status is sent is in the store after every step, with
\* every field as it was.
C24_SentDraftImmutable ==
    [][\A i \in DOMAIN drafts : drafts[i].status = "sent" => Kept(drafts[i])]_vars

\* C24: every command of the program leaves each sent draft in the store with
\* every field as it was, and edit-draft of a sent draft answers that it has
\* already been sent; update_draft_content and delete_draft of the store act
\* on the draft they are given, a sent one included.
C24_CommandsKeepSentDraft ==
    [][/\ (\A p \in Procs : proc'[p].wf \notin StoreCalls)
          => \A i \in DOMAIN drafts : drafts[i].status = "sent" => Kept(drafts[i])
       /\ \A p \in Procs :
            (/\ proc[p].pc = "idle" /\ proc'[p].pc = "done"
             /\ proc'[p].arg \in DraftIds(drafts))
               => /\ (/\ proc'[p].wf = "edit"
                      /\ get_draft_by_id(proc'[p].arg, drafts).status = "sent")
                     => (drafts' = drafts /\ proc'[p].out = "already sent")
                  /\ proc'[p].wf = "update_draft_content"
                     => get_draft_by_id(proc'[p].arg, drafts').body = proc'[p].out
                  /\ proc'[p].wf = "delete_draft"
                     => proc'[p].arg \notin DraftIds(drafts')]_vars

\* edit-draft has answered "already sent" for a draft, and the draft is sent.
C24_Witness ==
    \E p \in Procs :
        /\ proc[p].pc = "done" /\ proc[p].wf = "edit"
        /\ proc[p].out = "already sent"
        /\ proc[p].arg \in DraftIds(drafts)
        /\ get_draft_by_id(proc[p].arg, drafts).status = "sent"

-----------------------------------------------------------------------------
(* src/email_finder.py: find_application_email.  Addresses, URLs and page   *)
(* text are sequences of characters.  A parsed page (BeautifulSoup) is the  *)
(* record of what the code reads from it: the href of its mailto links      *)
(* after "mailto:", its text, and its other links (href, anchor text,       *)
(* whether inside the description div).                                     *)

Letters == {LowerAscii[n] : n \in DOMAIN LowerAscii} \cup {UpperAscii[n] : n \in DOMAIN UpperAscii}
Digits == {"0", "1", "2", "3", "4", "5", "6", "7", "8", "9"}

\* EMAIL_PATTERN: [a-zA-Z0-9._%+\-]+ @ [a-zA-Z0-9.\-]+ \. [a-zA-Z]{2,}
LocalChars == Letters \cup Digits \cup {".", "_", "%", "+", "-"}
DomainChars == Letters \cup Digits \cup {".", "-"}

\* The end of the match of EMAIL_PATTERN that starts at i, 0 if there is none.
\* Both + are greedy: the last dot of the run of domain characters that two
\* letters follow ends the domain, and the letters after it are all taken.
MatchEnd(text, i) ==
    LET n == Len(text)
        ats == {k \in (i + 1)..n : text[k] = "@" /\ \A j \in i..(k - 1) : text[j] \in LocalChars}
    IN  IF ats = {} THEN 0
        ELSE LET k == SetMin(ats)
                 m == SetMax({k} \cup {e \in (k + 1)..n : \A j \in (k + 1)..e : text[j] \in DomainChars})
                 dots == {d \in (k + 2)..(m - 2) : /\ text[d] = "."
                                                   /\ text[d + 1] \in Letters
                                                   /\ text[d + 2] \in Letters}
             IN  IF dots = {} THEN 0
                 ELSE LET d == SetMax(dots)
                      IN  SetMax({e \in (d + 2)..n : \A j \in (d + 1)..e : text[j] \in Letters})

RECURSIVE FindAll(_, _)
\* EMAIL_PATTERN.findall(text), scanning from position i
FindAll(text, i) ==
    IF i > Len(text) THEN <<>>
    ELSE LET e == MatchEnd(text, i)
         IN  IF e = 0 THEN FindAll(text, i + 1)
             ELSE <<SubSeq(text, i, e)>> \o FindAll(text, e + 1)

SKIP_DOMAINS ==
    {"example.com", "test.com", "linkedin.com", "licdn.com", "facebook.com",
     "twitter.com", "x.com", "google.com", "googleapis.com", "github.com",
     "githubusercontent.com", "sentry.io", "gravatar.com", "wp.com",
     "wordpress.com", "w3.org", "schema.org", "cloudflare.com", "amazonaws.com",
     "gstatic.com", "bootstrapcdn.com", "jquery.com"}

SKIP_PREFIXES ==
    {"noreply", "no-reply", "donotreply", "do-not-reply", "mailer-daemon",
     "postmaster", "webmaster", "admin", "support", "abuse", "security", "privacy"}

COMMON_HR_PREFIXES ==
    <<<<"h", "r">>,
      <<"c", "a", "r", "e", "e", "r", "s">>,
      <<"j", "o", "b", "s">>,
      <<"h", "i", "r", "i", "n", "g">>,
      <<"r", "e", "c", "r", "u", "i", "t", "i", "n", "g">>,
      <<"r", "e", "c", "r", "u", "i", "t", "m", "e", "n", "t">>,
      <<"t", "a", "l", "e", "n", "t">>,
      <<"a", "p", "p", "l", "y">>,
      <<"c", "a", "r", "e", "e", "r">>,
      <<"p", "e", "o", "p", "l", "e">>>>

\* s.split(c)[0] and s.split(c)[-1]
BeforeFirst(s, c) ==
    LET at == {k \in DOMAIN s : s[k] = c}
    IN  IF at = {} THEN s ELSE SubSeq(s, 1, SetMin(at) - 1)

AfterLast(s, c) ==
    LET at == {k \in DOMAIN s : s[k] = c}
    IN  IF at = {} THEN s ELSE SubSeq(s, SetMax(at) + 1, Len(s))

EndsWith(s, suffix) ==
    Len(s) >= Len(suffix) /\ SubSeq(s, Len(s) - Len(suffix) + 1, Len(s)) = suffix

IsValidEmailAny(email) == TRUE

_is_valid_email(email) ==
    LET lower == py_lower(email)
        has_at == \E k \in DOMAIN lower : lower[k] = "@"
        domain == IF has_at THEN AfterLast(lower, "@") ELSE <<>>
        prefix == IF has_at THEN BeforeFirst(lower, "@") ELSE <<>>
    IN  /\ Text(domain) \notin SKIP_DOMAINS
        /\ Text(prefix) \notin SKIP_PREFIXES
        /\ ~ (\/ EndsWith(domain, <<".", "p", "n", "g">>)
              \/ EndsWith(domain, <<".", "j", "p", "g">>)
              \/ EndsWith(domain, <<".", "g", "i", "f">>))
        /\ Len(email) <= 80

\* [e for e in items if keep(e)]
Filter(items, keep(_)) == SelectSeq(items, keep)

_extract_emails_from_text(text) == Filter(FindAll(text, 1), _is_valid_email)

IsHrEmail(email) ==
    LET prefix == py_lower(BeforeFirst(email, "@"))
    IN  \E n \in DOMAIN COMMON_HR_PREFIXES : Contains(prefix, COMMON_HR_PREFIXES[n])

IsOtherEmail(email) == ~ IsHrEmail(email)

RankEmailsKeepsOrder(emails) == emails

_rank_emails(emails) == Filter(emails, IsHrEmail) \o Filter(emails, IsOtherEmail)

\* list(emails) of a set of str: the order of iteration of a set depends on
\* the hash seed of the process; any order can come out.
ListOfSet(S) ==
    {l \in [1..Cardinality(S) -> S] : \A i, j \in DOMAIN l : l[i] = l[j] => i = j}

\* href[7:].split("?")[0].strip() of a mailto link
MailtoAddr(href) == py_strip(BeforeFirst(href, "?"))

\* _extract_emails_from_soup: the set of addresses, lower-cased
SoupEmails(soup) ==
    {py_lower(MailtoAddr(soup.mailto[n])) :
        n \in {k \in DOMAIN soup.mailto : _is_valid_email(MailtoAddr(soup.mailto[k]))}}
    \cup
    LET found == _extract_emails_from_text(soup.text)
    IN  {py_lower(found[n]) : n \in DOMAIN found}

\* urlparse(url) for "scheme://netloc/path" and for a path without scheme
urlparse(url) ==
    LET seps == {k \in 1..(Len(url) - 2) : SubSeq(url, k, k + 2) = <<":", "/", "/">>}
    IN  IF seps = {} THEN [scheme |-> <<>>, netloc |-> <<>>]
        ELSE LET k == SetMin(seps)
                 rest == SubSeq(url, k + 3, Len(url))
                 ends == {e \in DOMAIN rest : rest[e] \in {"/", "?", "#"}}
             IN  [scheme |-> SubSeq(url, 1, k - 1),
                  netloc |-> IF ends = {} THEN rest ELSE SubSeq(rest, 1, SetMin(ends) - 1)]

\* urlparse(url) raises ValueError("Invalid IPv6 URL"): the netloc has one of
\* the brackets [ and ] without the other
UrlRaises(url) ==
    LET netloc == urlparse(url).netloc
    IN  (\E k \in DOMAIN netloc : netloc[k] = "[") # (\E k \in DOMAIN netloc : netloc[k] = "]")

NoSoup == [none |-> TRUE]

WebsiteWords == <<<<"w", "e", "b", "s", "i", "t", "e">>, <<"o", "u", "r", " ", "s", "i", "t", "e">>, <<"c", "o", "m", "p", "a", "n", "y", " ", "s", "i", "t", "e">>, <<"v", "i", "s", "i", "t", " ", "u", "s">>>>

LinkedinCom == <<"l", "i", "n", "k", "e", "d", "i", "n", ".", "c", "o", "m">>

\* _get_company_website_from_linkedin(company_name, job_page_soup)
get_company_website_from_linkedin(soup) ==
    IF soup = NoSoup THEN <<>>
    ELSE LET links == soup.links
             named == {k \in DOMAIN links :
                          /\ \E n \in DOMAIN WebsiteWords :
                                Contains(py_lower(py_strip(links[k].text)), WebsiteWords[n])
                          /\ ~ Contains(links[k].href, LinkedinCom)}
             in_desc == {k \in DOMAIN links :
                          /\ links[k].in_description
                          /\ Text(urlparse(links[k].href).scheme) \in {"http", "https"}
                          /\ ~ Contains(links[k].href, LinkedinCom)}
         IN  IF named # {} THEN links[SetMin(named)].href
             ELSE IF in_desc # {}
             THEN LET parsed == urlparse(links[SetMin(in_desc)].href)
                  IN  parsed.scheme \o <<":", "/", "/">> \o parsed.netloc
             ELSE <<>>

\* _get_company_website_from_linkedin raises: no link named as the website,
\* and urlparse(href) of a link of the description raises before the loop
\* over these links has returned
WebsiteLookupRaises(soup) ==
    /\ soup # NoSoup
    /\ LET links == soup.links
           named == {k \in DOMAIN links :
                        /\ \E n \in DOMAIN WebsiteWords :
                              Contains(py_lower(py_strip(links[k].text)), WebsiteWords[n])
                        /\ ~ Contains(links[k].href, LinkedinCom)}
           returns == {k \in DOMAIN links :
                        /\ links[k].in_description
                        /\ Text(urlparse(links[k].href).scheme) \in {"http", "https"}
                        /\ ~ Contains(links[k].href, LinkedinCom)}
       IN  /\ named = {}
           /\ \E k \in DOMAIN links :
                 /\ links[k].in_description
                 /\ UrlRaises(links[k].href)
                 /\ \A j \in returns : j >= k

\* re.sub(r"[^a-zA-Z0-9]", "", company_name.lower())
IsAlnum(c) == c \in Letters \cup Digits

clean_name(company_name) == Filter(py_lower(company_name), IsAlnum)

\* f"https://www.{clean_name}.com"
guessed_url(name) == <<"h", "t", "t", "p", "s", ":", "/", "/", "w", "w", "w", ".">> \o name \o <<".", "c", "o", "m">>

CAREER_PATHS ==
    <<<<"/", "c", "a", "r", "e", "e", "r", "s">>, <<"/", "j", "o", "b", "s">>, <<"/", "c", "o", "n", "t", "a", "c", "t">>, <<"/", "a", "b", "o", "u", "t">>, <<"/", "c", "o", "n", "t", "a", "c", "t", "-", "u", "s">>,
      <<"/", "a", "b", "o", "u", "t", "-", "u", "s">>, <<"/", "w", "o", "r", "k", "-", "w", "i", "t", "h", "-", "u", "s">>, <<"/", "j", "o", "i", "n", "-", "u", "s">>, <<"/", "j", "o", "i", "n">>, <<"/", "h", "i", "r", "i", "n", "g">>>>

\* pages_to_check of _scrape_website_for_emails(base_url)
pages_to_check(base_url) ==
    LET parsed == urlparse(base_url)
        base_domain == parsed.scheme \o <<":", "/", "/">> \o parsed.netloc
    IN  <<base_domain>> \o [n \in DOMAIN CAREER_PATHS |-> base_domain \o CAREER_PATHS[n]]

max_pages == 4

RECURSIVE LStripChars(_, _)
\* s.lstrip(chars): drops the leading characters of s that are in chars
LStripChars(s, chars) ==
    IF s # <<>> /\ Head(s) \in chars THEN LStripChars(Tail(s), chars) ELSE s

\* s with the prefix "www." removed, if it starts with it
RemovePrefixWww(s) ==
    IF Len(s) >= 4 /\ SubSeq(s, 1, 4) = <<"w", "w", "w", ".">> THEN SubSeq(s, 5, Len(s)) ELSE s

\* parsed.netloc.lstrip("www.")
pattern_domain(netloc) == LStripChars(netloc, {"w", "."})

\* [f"{prefix}@{domain}" for prefix in COMMON_HR_PREFIXES[:6]]
_generate_common_patterns(domain) ==
    [n \in 1..6 |-> COMMON_HR_PREFIXES[n] \o <<"@">> \o domain]

-----------------------------------------------------------------------------
(* What find_application_email can be called with, and what a fetch can     *)
(* return.                                                                  *)

LongAddress == [n \in 1..73 |-> "a"] \o <<"@", "a", "c", "m", "e", ".", "i", "o">>

FinderDescriptions ==
    {<<>>,
     <<"E", "m", "a", "i", "l", " ", "y", "o", "u", "r", " ", "r", "e", "s", "u", "m", "e", " ", "t", "o", " ", "j", "o", "b", "s", "@", "a", "c", "m", "e", ".", "i", "o", " ", "o", "r", " ", "n", "o", "r", "e", "p", "l", "y", "@", "a", "c", "m", "e", ".", "i", "o">>,
     <<"W", "r", "i", "t", "e", " ", "t", "o", " ", "i", "n", "f", "o", "@", "a", "c", "m", "e", ".", "i", "o", ",", " ", "C", "h", "r", "i", "s", "t", "i", "n", "e", "@", "a", "c", "m", "e", ".", "i", "o", " ", "o", "r", " ", "C", "a", "r", "e", "e", "r", "s", "@", "A", "c", "m", "e", ".", "i", "o", ".">>,
     <<"n", "o", "r", "e", "p", "l", "y", "@", "a", "c", "m", "e", ".", "i", "o", " ", "l", "o", "g", "o", "@", "2", "x", ".", "p", "n", "g", " ", "b", "o", "b", "@", "e", "x", "a", "m", "p", "l", "e", ".", "c", "o", "m">>,
     <<"W", "e", " ", "u", "s", "e", " ", "R", "e", "a", "c", "t", ".", " ", "A", "p", "p", "l", "y", " ", "o", "n", " ", "o", "u", "r", " ", "s", "i", "t", "e">>,
     <<"S", "e", "n", "d", " ", "t", "o", " ">> \o LongAddress \o <<" ", "o", "r", " ", "d", "e", "v", "@", "a", "c", "m", "e", ".", "i", "o", " ", "a", "n", "d", " ", "a", "n", "n", "@", "a", "c", "m", "e", ".", "i", "o">>}

FinderCompanies == {<<>>, <<"A", "c", "m", "e", " ", "I", "n", "c", ".">>, <<"W", "i", "x">>, <<"G", "o", "o", "g", "l", "e">>}

Soup(mailto, text, links) == [mailto |-> mailto, text |-> text, links |-> links]

Link(href, text, in_description) == [href |-> href, text |-> text, in_description |-> in_description]

FinderSoups ==
    {NoSoup,
     Soup(<<<<" ", "H", "R", "@", "A", "c", "m", "e", ".", "i", "o", "?", "s", "u", "b", "j", "e", "c", "t", "=", "J", "o", "b">>>>, <<"A", "p", "p", "l", "y", ":", " ", "i", "n", "f", "o", "@", "a", "c", "m", "e", ".", "i", "o">>, <<>>),
     Soup(<<>>, <<"A", "b", "o", "u", "t", " ", "u", "s">>, <<Link(<<"h", "t", "t", "p", "s", ":", "/", "/", "w", "w", "w", ".", "l", "i", "n", "k", "e", "d", "i", "n", ".", "c", "o", "m", "/", "c", "o", "m", "p", "a", "n", "y", "/", "a", "c", "m", "e">>, <<"W", "e", "b", "s", "i", "t", "e">>, FALSE), Link(<<"h", "t", "t", "p", "s", ":", "/", "/", "w", "w", "w", ".", "w", "e", "w", "o", "r", "k", ".", "c", "o", "m", "/", "c", "a", "r", "e", "e", "r", "s">>, <<" ", "V", "i", "s", "i", "t", " ", "u", "s", " ">>, FALSE)>>),
     Soup(<<>>, <<"Q", "u", "e", "s", "t", "i", "o", "n", "s", ":", " ", "s", "u", "p", "p", "o", "r", "t", "@", "a", "c", "m", "e", ".", "i", "o">>, <<Link(<<"h", "t", "t", "p", ":", "/", "/", "w", "e", "b", ".", "d", "e", "v", "/", "a", "b", "o", "u", "t", "?", "x", "=", "1">>, <<"h", "e", "r", "e">>, TRUE)>>),
     Soup(<<>>, <<"J", "o", "i", "n">>, <<>>),
     Soup(<<>>, <<"J", "o", "i", "n">>, <<Link(<<"h", "t", "t", "p", ":", "/", "/", "[", "a", "c", "m", "e", ".", "i", "o", "/", "j", "o", "b", "s">>, <<"c", "a", "r", "e", "e", "r", "s">>, TRUE)>>),
     Soup(<<>>, <<"J", "o", "i", "n">>, <<Link(<<"h", "t", "t", "p", "s", ":", "/", "/", "[", "a", "c", "m", "e", ".", "i", "o">>, <<"C", "o", "m", "p", "a", "n", "y", " ", "w", "e", "b", "s", "i", "t", "e">>, FALSE)>>)}

\* _fetch_page(url): None on a failure or a status other than 200
SitePages ==
    {NoSoup,
     Soup(<<>>, <<"W", "e", "l", "c", "o", "m", "e">>, <<>>),
     Soup(<<<<"J", "o", "b", "s", "@", "a", "c", "m", "e", ".", "i", "o">>>>, <<"C", "o", "n", "t", "a", "c", "t", " ", "p", "r", "e", "s", "s", "@", "a", "c", "m", "e", ".", "i", "o", " ", "o", "r", " ", "t", "a", "l", "e", "n", "t", "@", "a", "c", "m", "e", ".", "i", "o">>, <<>>)}

FetchPage(url) == IF urlparse(url).netloc = <<>> THEN {NoSoup} ELSE SitePages

InitFinder ==
    /\ InitStore
    /\ today = 0
    /\ max_applications_per_day = 0
    /\ max_applications_per_run = 0
    /\ proc = [p \in Procs |-> IdleProc]
    /\ runs = 0
    /\ pick_jobs = <<>>
    /\ pick_contacted = {}
    /\ pick_out = <<>>
    /\ pick_pc = "off"
    /\ \E d \in FinderDescriptions, c \in FinderCompanies, s \in FinderSoups :
          finder = [pc |-> "description", job_description |-> d, company_name |-> c,
                    job_page_soup |-> s, trace |-> <<>>, fetches |-> 0,
                    company_website |-> <<>>, page |-> 1, checked |-> 0,
                    emails |-> {}, patterns |-> <<>>, result |-> <<>>]

\* a strategy of the cascade is entered
Invoked(f, strategy) == [f EXCEPT !.trace = Append(@, strategy)]

\* return email
Returned(f, email) == [f EXCEPT !.pc = "returned", !.result = email]

FinderFrame == UNCHANGED <<store, today, config, proc, runs, classified, pick_jobs, pick_contacted, pick_out, pick_pc>>

YieldsNever(found, ranked) == FALSE

\* if desc_emails: ranked = _rank_emails(desc_emails); if ranked: return ranked[0]
Yields(found, ranked) == found # <<>> /\ ranked # <<>>

\* Strategy 1: job description text
FindInDescription ==
    /\ finder.pc = "description"
    /\ LET desc_emails == _extract_emails_from_text(finder.job_description)
           ranked == _rank_emails(desc_emails)
       IN  finder' = IF Yields(desc_emails, ranked)
                     THEN Returned(Invoked(finder, "description"), ranked[1])
                     ELSE [Invoked(finder, "description") EXCEPT !.pc = "page"]
    /\ FinderFrame

\* Strategy 2: the job page, if one was passed
FindOnJobPage ==
    /\ finder.pc = "page"
    /\ IF finder.job_page_soup = NoSoup
       THEN finder' = [finder EXCEPT !.pc = "website"]
       ELSE \E page_emails \in ListOfSet(SoupEmails(finder.job_page_soup)) :
               LET ranked == _rank_emails(page_emails)
               IN  finder' = IF Yields(page_emails, ranked)
                             THEN Returned(Invoked(finder, "page"), ranked[1])
                             ELSE [Invoked(finder, "page") EXCEPT !.pc = "website"]
    /\ FinderFrame

\* Strategy 3: the company website, from the job page or guessed and probed.
\* urlparse is called outside any try, in _get_company_website_from_linkedin
\* and at the start of _scrape_website_for_emails: its ValueError leaves
\* find_application_email.
FindCompanyWebsite ==
    /\ finder.pc = "website"
    /\ LET from_page == get_company_website_from_linkedin(finder.job_page_soup)
           name == clean_name(finder.company_name)
           f == Invoked(finder, "website")
       IN  IF WebsiteLookupRaises(finder.job_page_soup)
           THEN finder' = [f EXCEPT !.pc = "raised"]
           ELSE IF from_page # <<>>
           THEN finder' = [f EXCEPT !.company_website = from_page,
                                    !.pc = IF UrlRaises(from_page) THEN "raised"
                                           ELSE "scrape"]
           ELSE IF finder.company_name # <<>> /\ name # <<>>
           THEN \E soup \in FetchPage(guessed_url(name)) :
                   finder' = IF soup # NoSoup
                             THEN [f EXCEPT !.fetches = @ + 1, !.pc = "scrape",
                                            !.company_website = guessed_url(name)]
                             ELSE Returned([f EXCEPT !.fetches = @ + 1], <<>>)
           ELSE finder' = Returned(f, <<>>)
    /\ FinderFrame

\* _scrape_website_for_emails: one turn of the loop over pages_to_check
ScrapeWebsitePage ==
    /\ finder.pc = "scrape"
    /\ finder.page <= Len(pages_to_check(finder.company_website))
    /\ finder.checked < max_pages
    /\ \E soup \in FetchPage(pages_to_check(finder.company_website)[finder.page]) :
          IF soup = NoSoup
          THEN finder' = [finder EXCEPT !.fetches = @ + 1, !.page = @ + 1]
          ELSE LET emails == finder.emails \cup SoupEmails(soup)
               IN  finder' = [finder EXCEPT !.fetches = @ + 1, !.page = @ + 1,
                                            !.checked = @ + 1, !.emails = emails,
                                            !.pc = IF emails # {} THEN "scraped"
                                                   ELSE "scrape"]
    /\ FinderFrame

\* the loop ends: no page left, or max_pages pages were fetched
ScrapeWebsiteEnd ==
    /\ finder.pc = "scrape"
    /\ \/ finder.page > Len(pages_to_check(finder.company_website))
       \/ finder.checked >= max_pages
    /\ finder' = [finder EXCEPT !.pc = "scraped"]
    /\ FinderFrame

\* site_emails = list(emails); rank; return, or go on to the patterns
FindOnWebsite ==
    /\ finder.pc = "scraped"
    /\ \E site_emails \in ListOfSet(finder.emails) :
          LET ranked == _rank_emails(site_emails)
          IN  finder' = IF Yields(site_emails, ranked)
                        THEN Returned(finder, ranked[1])
                        ELSE [finder EXCEPT !.pc = "pattern"]
    /\ FinderFrame

\* Strategy 4: common patterns from the company domain
PatternFallback ==
    /\ finder.pc = "pattern"
    /\ LET domain == pattern_domain(urlparse(finder.company_website).netloc)
           patterns == _generate_common_patterns(domain)
       IN  finder' = IF domain # <<>> /\ \E k \in DOMAIN domain : domain[k] = "."
                     THEN Returned([Invoked(finder, "pattern") EXCEPT !.patterns = patterns],
                                   patterns[1])
                     ELSE Returned(finder, <<>>)
    /\ FinderFrame

NextFinder ==
    \/ FindInDescription
    \/ FindOnJobPage
    \/ FindCompanyWebsite
    \/ ScrapeWebsitePage
    \/ ScrapeWebsiteEnd
    \/ FindOnWebsite
    \/ PatternFallback

SpecFinder == InitFinder /\ [][NextFinder]_vars

-----------------------------------------------------------------------------
(* Email discovery                                                          *)

CascadeOrder == <<"description", "page", "website", "pattern">>

PlaceOf(strategy) == CHOOSE n \in DOMAIN CascadeOrder : CascadeOrder[n] = strategy

FinderOn == finder.pc # "off"

Entered(strategy) == \E n \in DOMAIN finder.trace : finder.trace[n] = strategy

\* C25: the strategies are entered in the order description, page, website,
\* pattern; a strategy that finds a valid address ends the call, so that
\* after a description with a valid address the page was not scanned,
\* nothing was fetched and no pattern address was made.
C25_CascadeShortCircuits ==
    FinderOn =>
        /\ \A i, j \in DOMAIN finder.trace :
              i < j => PlaceOf(finder.trace[i]) < PlaceOf(finder.trace[j])
        /\ finder.trace # <<>> => finder.trace[1] = "description"
        /\ (/\ finder.pc # "description"
            /\ _extract_emails_from_text(finder.job_description) # <<>>)
              => /\ finder.pc = "returned"
                 /\ finder.trace = <<"description">>
                 /\ finder.fetches = 0
                 /\ finder.patterns = <<>>
                 /\ finder.result # <<>>
        /\ (Entered("page") /\ SoupEmails(finder.job_page_soup) # {})
              => /\ finder.pc = "returned"
                 /\ finder.trace = <<"description", "page">>
                 /\ finder.fetches = 0
                 /\ finder.result \in SoupEmails(finder.job_page_soup)
        /\ (finder.pc = "returned" /\ finder.emails # {})
              => /\ ~ Entered("pattern")
                 /\ finder.result \in finder.emails

\* The description had an address, and so had the job page that was passed:
\* the call returned the one of the description.
C25_Witness ==
    /\ FinderOn
    /\ finder.pc = "returned"
    /\ finder.trace = <<"description">>
    /\ finder.job_page_soup # NoSoup
    /\ SoupEmails(finder.job_page_soup) # {}
    /\ finder.result \notin SoupEmails(finder.job_page_soup)

\* The denylist: denylisted domain, denylisted local part, image-extension
\* domain, more than 80 characters.
Denylisted(email) ==
    LET lower == py_lower(email)
        domain == AfterLast(lower, "@")
    IN  \/ Text(domain) \in SKIP_DOMAINS
        \/ Text(BeforeFirst(lower, "@")) \in SKIP_PREFIXES
        \/ \E ext \in {<<".", "p", "n", "g">>, <<".", "j", "p", "g">>, <<".", "g", "i", "f">>} : EndsWith(domain, ext)
        \/ Len(email) > 80

Survives(email) == ~ Denylisted(email)

ScenarioC == <<"E", "m", "a", "i", "l", " ", "y", "o", "u", "r", " ", "r", "e", "s", "u", "m", "e", " ", "t", "o", " ", "j", "o", "b", "s", "@", "a", "c", "m", "e", ".", "i", "o", " ", "o", "r", " ", "n", "o", "r", "e", "p", "l", "y", "@", "a", "c", "m", "e", ".", "i", "o">>

JobsAtAcme == <<"j", "o", "b", "s", "@", "a", "c", "m", "e", ".", "i", "o">>

C30_PatternOnWebsiteHost ==
    (FinderOn /\ finder.pc = "returned" /\ finder.company_website # <<>>
              /\ finder.emails = {})
        => finder.result
              = <<"h", "r">> \o <<"@">> \o RemovePrefixWww(urlparse(finder.company_website).netloc)

-----------------------------------------------------------------------------
(* Employer keys of the store and of selection                              *)

\* C27: the key that selection and draft dedup compute for the employer of
\* every Application and of every draft not discarded is in the sets the
\* store returns as contacted and as sent employers.
C27_StoreKeysAreSelectionKeys ==
    LET contacted == get_contacted_companies(applications, drafts)
        sent == get_sent_companies(applications)
    IN  /\ \A i \in DOMAIN applications :
              /\ company_key(applications[i].company) \in contacted
              /\ company_key(applications[i].company) \in sent
        /\ \A i \in DOMAIN drafts :
              drafts[i].status # "discarded"
                  => company_key(drafts[i].company) \in contacted

-----------------------------------------------------------------------------
(* The counters of a sending invocation                                     *)

\* The invocation of p goes on with the next candidate, or ends its loop.
NextCandidate(p) ==
    /\ proc[p].pc = "loop" /\ proc[p].work # <<>>
    /\ proc'[p].pc = "loop" /\ proc'[p].work = Tail(proc[p].work)

\* The delivery was called in this step and the step does not lead to the
\* persisting of the Application: the delivery failed.
DeliveryFailed(p) ==
    /\ proc'[p].send_calls = proc[p].send_calls + 1
    /\ proc'[p].pc # "log"

\* The Application of a delivery that succeeded has been persisted (and, in
\* send-approved-drafts, the draft marked sent): the send is complete.
SendCompleted(p) ==
    /\ proc[p].pc = IF proc[p].wf = "send_drafts" THEN "set_sent" ELSE "log"
    /\ proc'[p].pc = "loop"

DryRunSend(p) ==
    /\ proc[p].dry_run
    /\ proc[p].pc = "loop" /\ proc'[p].pc = "loop"
    /\ proc'[p].work # proc[p].work

Consumed(p) == proc'[p].applied_count - proc[p].applied_count

Failed(p) == proc'[p].applications_failed - proc[p].applications_failed

\* C28: in a sending invocation the consumed budget grows by one with each
\* completed real send and with each dry-run send and by nothing else; a
\* failed delivery adds one to the failed counter, leaves the consumed budget
\* and takes the loop to the next candidate.
C28_BudgetCountsSendsNotFailures ==
    [][\A p \in Procs : (Sending(p) /\ proc'[p].wf = proc[p].wf) =>
          /\ Consumed(p) = IF SendCompleted(p) \/ DryRunSend(p) THEN 1 ELSE 0
          /\ Failed(p) = IF DeliveryFailed(p) THEN 1 ELSE 0
          /\ DeliveryFailed(p) => NextCandidate(p)
          /\ proc'[p].applications_sent - proc[p].applications_sent = Consumed(p)]_vars

\* An invocation that is not a dry run has had a failed delivery and, after
\* it, a delivery that succeeded.
C28_Witness ==
    \E p \in Procs :
        /\ Sending(p)
        /\ ~ proc[p].dry_run
        /\ proc[p].pc = "done"
        /\ proc[p].applications_failed = 1
        /\ proc[p].applied_count = 1
        /\ proc[p].send_calls = 2

\* The delivery to the candidate of p was reported as failed in this step.
ReportedFailed(p) == Failed(p) = 1

\* The drafts a send-approved-drafts of the same kind would fetch.
EligibleDrafts(p, drs) ==
    LET fetched == DraftsToSend(proc[p].send_all, drs)
    IN  {fetched[n].id : n \in DOMAIN fetched}

\* C29: a failed delivery leaves the store as it is; in send-approved-drafts
\* the draft keeps its status, approved or pending, and is among the drafts a
\* later invocation fetches.  The Applications persisted by an invocation
\* are as many as its deliveries that did not fail.
C29_FailedDeliveryLeavesStore ==
    /\ [][\A p \in Procs : (Sending(p) /\ ReportedFailed(p)) =>
             /\ UNCHANGED store
             /\ proc[p].wf = "send_drafts" =>
                  LET draft == Head(proc[p].work)
                  IN  /\ get_draft_by_id(draft.id, drafts').status = draft.status
                      /\ draft.status \in {"approved", "pending"}
                      /\ draft.id \in EligibleDrafts(p, drafts')]_vars
    /\ [](\A p \in Procs :
             (Sending(p) /\ ~ proc[p].dry_run /\ proc[p].pc \in {"loop", "done"})
                => Len(applications) - proc[p].apps_today
                      = proc[p].send_calls - proc[p].applications_failed)

\* send-approved-drafts has ended after its only delivery failed, and the
\* draft is as before, not sent and among those a later invocation fetches.
C29_Witness ==
    \E p \in Procs :
        /\ proc[p].wf = "send_drafts"
        /\ proc[p].pc = "done"
        /\ proc[p].applications_failed = 1
        /\ proc[p].send_calls = 1
        /\ applications = <<>>
        /\ EligibleDrafts(p, drafts) # {}

\* ---------------------------------------------------------------------
\* Fetch failures in the website scan
\* ---------------------------------------------------------------------

\* a turn of the scan whose fetch failed: a page was fetched, none was counted
FailedFetch == finder.pc = "scrape" /\ finder'.fetches = finder.fetches + 1 /\ finder'.checked = finder.checked

\* find_application_email is left by an exception
FinderRaised == finder.pc = "raised"

\* C31: a failed page fetch is an empty page: the scan goes on with the next
\* candidate page, failed fetches are not counted toward the cap of max_pages
\* successful fetches, the scan stops at the first page that yields an
\* address, the cascade goes on, and find_application_email always ends by
\* returning an address or the empty string and never raises.
C31_FetchFailureNeverAborts ==
    /\ [](FinderOn =>
            /\ finder.checked <= max_pages
            /\ finder.pc = "scrape" => finder.emails = {}
            /\ ~ FinderRaised
            /\ finder.fetches <= Len(CAREER_PATHS) + 2
            /\ Len(finder.trace) <= Len(CascadeOrder))
    /\ [][FailedFetch =>
            /\ finder'.pc = "scrape"
            /\ finder'.page = finder.page + 1
            /\ finder'.emails = finder.emails
            /\ finder'.result = finder.result]_vars

\* ---------------------------------------------------------------------
\* Termination of the process in the middle of a workflow
\* ---------------------------------------------------------------------

\* the process is terminated: what the store holds stays, as each store
\* function commits before it returns; the invocation's own state is lost
Kill(p) ==
    /\ proc[p].pc # "idle"
    /\ Set(p, IdleProc)
    /\ UNCHANGED <<store, today, config, runs, classified, pickvars>>

NextKill == NextDrafts \/ \E p \in MainProcs : Kill(p)

SpecKill == InitDrafts /\ [][NextKill]_vars

NoProcessRuns == \A p \in Procs : proc[p].pc = "idle"

DraftStatuses == {"pending", "approved", "sent", "discarded"}

\* C32: whenever no process runs, after a termination at any point, the
\* store is consistent: at most one SeenEntry per identity key, every draft in
\* one of the four statuses, and an Application of a draft's delivery is
\* stored if and only if the draft's status is sent.
C32_KilledRunLeavesStoreConsistent ==
    NoProcessRuns =>
        /\ \A i, j \in DOMAIN seen_jobs :
              seen_jobs[i].unique_key = seen_jobs[j].unique_key => i = j
        /\ \A i \in DOMAIN drafts :
              /\ drafts[i].status \in DraftStatuses
              /\ (\E k \in DOMAIN applications : Carries(applications[k], drafts[i]))
                 <=> drafts[i].status = "sent"

\* ---------------------------------------------------------------------
\* Two pipeline instances filtering the same postings
\* ---------------------------------------------------------------------

\* both instances scrape the same two postings
TwoRunsJobs == {JobA1, JobE1}

\* limits under which a run of two candidates stops at its budget
InitTwoRuns ==
    /\ InitStore
    /\ today = 0
    /\ max_applications_per_day = 2
    /\ max_applications_per_run = 1
    /\ proc = [p \in Procs |-> IdleProc]
    /\ runs = 0
    /\ PickOff

TwoRunsCommand(p) ==
    \/ StartRun(p)
    \/ Scrape(p, ScrapeLengths)
    \/ Filtering(p, TwoRunsJobs)
    \/ Select(p)
    \/ LoopEnd(p)
    \/ LoopBreak(p)
    \/ LoopDryRun(p)
    \/ LoopSend(p)
    \/ LoopLog(p)
    \/ Exit(p)

NextTwoRuns == \E p \in Procs : TwoRunsCommand(p)

SpecTwoRuns == InitTwoRuns /\ [][NextTwoRuns]_vars

EntriesOf(key, seen) == {i \in DOMAIN seen : seen[i].unique_key = key}

\* both instances found the key absent and are about to mark it
BothAboutToMark ==
    /\ \A p \in Procs : proc[p].pc = "mark"
    /\ \A p, q \in Procs : unique_key(proc[p].job) = unique_key(proc[q].job)

\* C33: when two pipeline instances check and mark a record of the same
\* identity key at the same time, in every interleaving the store holds
\* exactly one SeenEntry of that key afterwards and each instance's mark
\* completes: it goes on with its filter loop.
C33_ConcurrentMarkOneEntry ==
    /\ [](\A i, j \in DOMAIN seen_jobs :
            seen_jobs[i].unique_key = seen_jobs[j].unique_key => i = j)
    /\ [][\A p \in Procs :
            proc[p].pc = "mark" /\ proc'[p] # proc[p]
            => /\ proc'[p].pc = "filter"
               /\ proc'[p].jobs_new = proc[p].jobs_new + 1
               /\ Cardinality(EntriesOf(unique_key(proc[p].job), seen_jobs')) = 1]_vars

C33_Witness ==
    /\ \E i, j \in DOMAIN classified : i # j /\ classified[i] = classified[j]
    /\ \A p \in Procs : proc[p].wf = "run" /\ proc[p].jobs_new >= 1
    /\ Len(seen_jobs) = 1

\* ---------------------------------------------------------------------
\* Overlapping send-pending invocations
\* ---------------------------------------------------------------------

OverlapCommand(p) ==
    \/ StartSendPending(p)
    \/ Pending(p)
    \/ Select(p)
    \/ LoopEnd(p)
    \/ LoopBreak(p)
    \/ LoopDryRun(p)
    \/ LoopSend(p)
    \/ LoopLog(p)
    \/ Exit(p)

NextOverlap == \E p \in Procs : OverlapCommand(p)

SpecOverlap == InitDrafts /\ [][NextOverlap]_vars

\* Applications logged on the current day
SentToday == get_applications_today(applications, today)

\* two Applications went to one employer
EmployerAppliedTwice ==
    \E i, j \in DOMAIN applications :
        /\ i # j
        /\ py_lower(py_strip(applications[i].company))
             = py_lower(py_strip(applications[j].company))

\* C34: the limit and employer checks are reads followed later by writes.
\* Each invocation sends no more than the budget it computed from the count
\* it read, so the day's total is bounded only by one daily budget per
\* overlapping invocation; overlapping invocations that read the same count
\* and the same contacted set reach more than max_applications_per_day
\* Applications in one day and two Applications to one employer.
C34_BudgetHoldsPerInvocationOnly ==
    /\ \A p \in Procs :
          proc[p].wf = "send_pending"
          => /\ \/ proc[p].applications_sent = 0
                \/ proc[p].applications_sent
                  <= MaxThisRun(max_applications_per_run,
                                RemainingToday(max_applications_per_day, proc[p].apps_today))
             /\ \A i, j \in DOMAIN proc[p].work :
                   py_lower(py_strip(proc[p].work[i].company))
                     = py_lower(py_strip(proc[p].work[j].company)) => i = j
    /\ SentToday <= Cardinality(Procs) * max_applications_per_day

C34_Witness ==
    /\ \A p \in Procs : /\ proc[p].wf = "send_pending"
                        /\ proc[p].apps_today = 0
                        /\ proc[p].applications_sent >= 1
    /\ SentToday > max_applications_per_day
    /\ EmployerAppliedTwice

\* ---------------------------------------------------------------------
\* Dry runs
\* ---------------------------------------------------------------------

\* the invocation a step belongs to: the record of the process after the
\* step, or before it when the step is the invocation's exit
InvocationOf(p) == IF proc'[p].pc = "idle" THEN proc[p] ELSE proc'[p]

IsPrefix(s, t) == Len(s) <= Len(t) /\ SubSeq(t, 1, Len(s)) = s

\* what a dry run of a sending workflow over the store reports as sent
DrySummary(wf, send_all) ==
    LET remaining == RemainingToday(max_applications_per_day, SentToday)
        selected ==
            IF wf = "send_pending"
            THEN pick_best_per_company(get_pending_jobs(seen_jobs, applications, drafts),
                                       get_contacted_companies(applications, drafts))
            ELSE DedupLoop(DraftsToSend(send_all, drafts), {},
                           get_sent_companies(applications), <<>>)
    IN  IF DailyLimitReached(remaining) THEN 0
        ELSE Min(Len(selected), MaxThisRun(max_applications_per_run, remaining))

\* C35: a dry-run invocation never calls the delivery collaborator; a dry run
\* of send-pending or of send-drafts leaves the store unchanged, and its
\* summary is determined by the store, so that repeating it on the unchanged
\* store reports the same; a dry-run full run changes nothing in the store
\* but adds SeenEntries.
C35_DryRunLeavesStore ==
    /\ [](\A p \in Procs :
            proc[p].dry_run
            => /\ proc[p].send_calls = 0
               /\ proc[p].applications_failed = 0
               /\ (proc[p].pc = "done" /\ proc[p].wf \in {"send_pending", "send_drafts"})
                  => proc[p].applications_sent = DrySummary(proc[p].wf, proc[p].send_all))
    /\ [][\A p \in Procs :
            (proc'[p] # proc[p] /\ InvocationOf(p).dry_run)
            => /\ applications' = applications
               /\ drafts' = drafts
               /\ draft_seq' = draft_seq
               /\ IsPrefix(seen_jobs, seen_jobs')
               /\ InvocationOf(p).wf \in {"send_pending", "send_drafts"}
                  => seen_jobs' = seen_jobs]_vars

C35_Witness ==
    \E p \in Procs :
        /\ proc[p].dry_run /\ proc[p].pc = "done"
        /\ proc[p].wf = "send_drafts"
        /\ proc[p].applications_sent >= 1
        /\ proc[p].send_calls = 0
        /\ \E i \in DOMAIN drafts : drafts[i].status = "pending"
        /\ applications = <<>>

\* ---------------------------------------------------------------------
\* Drafts and the pending jobs
\* ---------------------------------------------------------------------

\* the draft commands together with send-pending, over the seeded store
NextDraftsAndPending == NextDrafts \/ \E p \in MainProcs : StartSendPending(p)

SpecDraftsAndPending == InitDrafts /\ [][NextDraftsAndPending]_vars

HasDraft(key) == \E d \in DOMAIN drafts : drafts[d].job_unique_key = key

\* C36: once a draft of whatever status, discarded included, exists for a
\* job's identity key, get_pending_jobs never returns that job while the
\* draft row exists: generate-drafts does not draft it again and
\* send-pending does not send it.
C36_DraftedJobNeverPending ==
    /\ [](/\ \A k \in DOMAIN PendingNow : ~ HasDraft(PendingNow[k].unique_key)
          /\ \A p \in Procs :
                proc[p].wf \in {"draft", "send_pending"}
                => /\ \A k \in DOMAIN proc[p].candidates :
                         ~ HasDraft(proc[p].candidates[k].unique_key)
                   /\ \A k \in DOMAIN proc[p].work :
                         ~ HasDraft(proc[p].work[k].unique_key))
    /\ [][\A d \in DOMAIN drafts :
            /\ d \in DOMAIN drafts'
            /\ drafts'[d].job_unique_key = drafts[d].job_unique_key
            /\ \A e \in DOMAIN drafts' :
                  drafts'[e].job_unique_key = drafts[d].job_unique_key => e = d]_vars

C36_Witness ==
    /\ \E d \in DOMAIN drafts :
          /\ drafts[d].status = "discarded"
          /\ \E i \in DOMAIN seen_jobs :
                /\ seen_jobs[i].unique_key = drafts[d].job_unique_key
                /\ seen_jobs[i].application_email # ""
    /\ \E p \in Procs : proc[p].wf = "draft" /\ proc[p].pc = "done" /\ runs = MaxRuns

\* C37: after any sequence of generate-drafts invocations, one at a time,
\* interleaved with status changes and sends and no deletion, at most one
\* draft exists per job identity key, and every draft is created with the
\* status pending.
C37_OneDraftPerJobCreatedPending ==
    /\ [](\A i, j \in DOMAIN drafts :
            drafts[i].job_unique_key = drafts[j].job_unique_key => i = j)
    /\ [][Len(drafts') # Len(drafts)
            => /\ Len(drafts') = Len(drafts) + 1
               /\ drafts'[Len(drafts')].status = "pending"
               /\ \E p \in Procs : proc[p].wf = "draft" /\ proc[p].pc = "draft_loop"]_vars

C37_Witness ==
    /\ Len(drafts) >= 3
    /\ \E d \in DOMAIN drafts : drafts[d].status = "discarded"
    /\ \E p \in Procs : proc[p].wf = "draft" /\ proc[p].pc = "done"
                                             /\ proc[p].drafts_created >= 1

\* what generate_drafts would select on the store as it is
WouldDraft ==
    pick_best_per_company(PendingNow, get_contacted_companies(applications, drafts))

\* C38: generate-drafts is idempotent on an unchanged store: when an
\* invocation has ended, a second one with no operation in between selects
\* no job and so creates no draft, whatever the employer names.
C38_GenerateDraftsIdempotent ==
    \A p \in Procs : proc[p].wf = "draft" /\ proc[p].pc = "done" => WouldDraft = <<>>

\* ---------------------------------------------------------------------
\* The denylist and the result of the discovery
\* ---------------------------------------------------------------------

\* C39: whichever strategy produces it, a non-empty result of
\* find_application_email passes the denylist: its domain is none of
\* SKIP_DOMAINS and its local part none of SKIP_PREFIXES.
C39_ResultPassesDenylist ==
    (finder.pc = "returned" /\ finder.result # <<>>)
    => LET lower == py_lower(finder.result)
       IN  /\ Text(AfterLast(lower, "@")) \notin SKIP_DOMAINS
           /\ Text(BeforeFirst(lower, "@")) \notin SKIP_PREFIXES

\* ---------------------------------------------------------------------
\* Repeated send-pending
\* ---------------------------------------------------------------------

\* a send-pending invocation with a budget of at least 1 and no failed
\* delivery has ended without sending: the store is as it found it, and every
\* further invocation finds the same
Quiescent(p) ==
    /\ proc[p].wf = "send_pending" /\ ~ proc[p].dry_run /\ proc[p].pc = "done"
    /\ proc[p].max_this_run >= 1
    /\ proc[p].applications_failed = 0
    /\ proc[p].applications_sent = 0

HasApplication(company) ==
    \E a \in DOMAIN applications :
        EmployerKey(applications[a].company) = EmployerKey(company)

HasLiveDraft(company) ==
    \E d \in DOMAIN drafts :
        /\ drafts[d].status # "discarded"
        /\ EmployerKey(drafts[d].company) = EmployerKey(company)

\* C40 as stated: send-pending comes to rest only in a state in which every
\* employer of a pending job has an Application.
C40_RestsWhenEveryEmployerApplied ==
    \A p \in Procs :
        Quiescent(p) => \A k \in DOMAIN PendingNow : HasApplication(PendingNow[k].company)

\* C40, amended: with successful deliveries and a budget of at least 1,
\* every delivery of send-pending takes a job out of the pending jobs, so
\* repeated invocations come to rest; they do so in a state in which every
\* employer of a pending job has an Application or a draft that is not
\* discarded, and in which a further invocation selects nothing to send.
C40_RestsWhenEveryEmployerContacted ==
    /\ [](\A p \in Procs :
            Quiescent(p)
            => /\ \A k \in DOMAIN PendingNow :
                     \/ HasApplication(PendingNow[k].company)
                     \/ HasLiveDraft(PendingNow[k].company)
               /\ WouldDraft = <<>>)
    /\ [][\A p \in Procs :
            (proc[p].wf = "send_pending" /\ proc[p].pc = "log" /\ proc'[p] # proc[p])
            => /\ Len(applications') = Len(applications) + 1
               /\ Len(PendingNow') < Len(PendingNow)]_vars

C40_Witness ==
    \E p \in Procs :
        /\ Quiescent(p)
        /\ PendingNow # <<>>
        /\ \E k \in DOMAIN PendingNow : ~ HasApplication(PendingNow[k].company)
        /\ \E k \in DOMAIN PendingNow : HasLiveDraft(PendingNow[k].company)

====
